---- MODULE Spec2Model ----
(***************************************************************************)
(* Model of the triangular-arbitrage engine: the strategy event loop       *)
(* (strategy.rs), the per-block lock set (lib.rs), the route history       *)
(* (math.rs), the path finder (paths.rs) and the execution coordinator     *)
(* (execution.rs, provider.rs).                                            *)
(*                                                                         *)
(* Amounts, prices and fees are small integers; addresses are strings.     *)
(***************************************************************************)
EXTENDS Integers, Sequences, FiniteSets, TLC

(***************************************************************************)
(* Bounds of the model.                                                    *)
(***************************************************************************)
\* the largest block number the block feed delivers
MaxBlock == 11
\* total number of route-evaluation tasks the event loop spawns in a run
MaxSpawned == 4
\* number of block events the event loop processes in a run
MaxEvents == 2
\* the best net profit a route evaluation finds ranges over 0..MaxProfit
MaxProfit == 1
\* size of the bundles handed to execute_arbitrage_bundle called on its own
MaxBundle == 1
\* bribe (USD) of the opportunities handed to it ranges over 0..MaxBribe
MaxBribe == 4
\* number of calls of lock_opportunity made on its own
MaxLockCalls == 3
\* length of the pool lists handed to generate_triangular_paths called on its own
MaxPools == 3
\* amounts handed to and quoted for simulate_v3_path called on its own range over 0..MaxAmount
MaxAmount == 2
MaxRoutes == 7
\* block headers the node delivers to the listener followed on its own
MaxHeaders == 4
\* whole tokens a quote of the optimizer run on its own gains: 1..MaxGain
MaxGain == 1
\* the node's gas estimates handed to estimate_gas run on its own: 0..MaxGasEstimate
MaxGasEstimate == 24
\* gas used and gas limit of the blocks handed to calculate_next_block_base_fee: 0..MaxGas
MaxGas == 4
\* their base fee: 0..MaxBaseFee
MaxBaseFee == 16

(***************************************************************************)
(* Program constants.                                                      *)
(***************************************************************************)
OPPORTUNITY_BUNDLE_SIZE == 5
ROUTE_FAILURE_COOLDOWN_BLOCKS == 10
MIN_TVL_USD == 50000
MAX_POOLS_PER_TOKEN == 75
DEFAULT_PATH_REFRESH_INTERVAL_BLOCKS == 100
LOCK_RETENTION_BLOCKS == 10
MAX_SEND_ATTEMPTS == 3
\* tokio::sync::broadcast::channel(512)
BROADCAST_CAPACITY == 512
\* the bracket [1e17, 1e20] and the tolerance 1e15 of the golden-section
\* search, in units of 1e13 wei
SEARCH_LOW == 10000
SEARCH_HIGH == 10000000
SEARCH_TOL == 100
\* for _ in 0..15
SEARCH_ROUNDS == 15
\* gr_u256 = (sqrt(5) - 1) / 2 and U256::exp10(18), in millionths
GR == 618034
GR_ONE == 1000000
\* for attempt in 0..3 of provider::estimate_gas
MAX_ESTIMATE_ATTEMPTS == 3
\* one token of 18 decimals, in units of 1e13 wei
TOKEN_UNITS == 100000
\* DEFAULT_GAS_LIMIT and DEFAULT_MAX_BRIBE_PERCENT (in percent)
DEFAULT_GAS_LIMIT == 2000000
MAX_BRIBE_PERCENT == 80

\* CONFIG.path_refresh_interval_blocks, left at its default
path_refresh_interval_blocks == DEFAULT_PATH_REFRESH_INTERVAL_BLOCKS

\* CONFIG.token_in_address
token_in_address == "A"

(***************************************************************************)
(* Small helpers.                                                          *)
(***************************************************************************)
Range(s) == {s[i] : i \in DOMAIN s}

\* u64::saturating_sub
saturating_sub(a, b) == IF a >= b THEN a - b ELSE 0

(***************************************************************************)
(* Pools and the oracle feeds.                                             *)
(***************************************************************************)
Pool(addr, t0, t1, tvl, fee) ==
    [address |-> addr, token0 |-> t0, token1 |-> t1, tvl_usd |-> tvl, fee |-> fee]

\* tokens for which the oracle map has a feed (OracleMap::get_feeds)
FeedTokens == {"A", "B", "C", "D", "E"}

get_feeds(token) == token \in FeedTokens

\* One triangle A-B-C, a pool under the TVL floor and a pool into a token
\* without a feed.
SmallCatalog ==
    << Pool("p1", "A", "B", 900000, 500),
       Pool("p2", "B", "C", 800000, 500),
       Pool("p3", "C", "A", 700000, 3000),
       Pool("p7", "A", "B", 40000, 500),
       Pool("p8", "A", "F", 600000, 500) >>

\* Two pool-disjoint triangles A-B-C and A-D-E.
BigCatalog ==
    << Pool("p1", "A", "B", 900000, 500),
       Pool("p2", "B", "C", 800000, 500),
       Pool("p3", "C", "A", 700000, 3000),
       Pool("p4", "A", "D", 6000000, 100),
       Pool("p5", "E", "D", 6000000, 100),
       Pool("p6", "E", "A", 6000000, 100) >>

\* what a pool reload can return
PoolCatalogs == {SmallCatalog, BigCatalog}

(***************************************************************************)
(* paths.rs: generate_triangular_paths.                                    *)
(***************************************************************************)
\* the other token of a pool, as the ternaries of paths.rs compute it
OtherToken(pool, token) == IF pool.token0 = token THEN pool.token1 ELSE pool.token0

\* Vec::sort_unstable_by on tvl_usd, descending: an element goes after
\* those with a greater TVL and, the comparison telling nothing else, after
\* the elements of the same TVL that come before it
SortByTvlDesc(s) ==
    LET n == Len(s)
        pos == [i \in 1..n |->
                    Cardinality({j \in 1..n : s[j].tvl_usd > s[i].tvl_usd})
                    + Cardinality({j \in 1..i : s[j].tvl_usd = s[i].tvl_usd})]
    IN [k \in 1..n |-> s[CHOOSE i \in 1..n : pos[i] = k]]

\* Vec::truncate
Truncate(s, n) == IF Len(s) <= n THEN s ELSE SubSeq(s, 1, n)

\* pools_by_token[token]: the pools (of the TVL-filtered list) holding the
\* token, a pool pushed once per side, sorted by TVL and capped
PoolsByToken(pools, token) ==
    LET filtered == SelectSeq(pools, LAMBDA p : p.tvl_usd >= MIN_TVL_USD)
        sides == [k \in 1..(2 * Len(filtered)) |->
                     [pool |-> filtered[(k + 1) \div 2],
                      token |-> IF k % 2 = 1 THEN filtered[(k + 1) \div 2].token0
                                ELSE filtered[(k + 1) \div 2].token1]]
        hits == SelectSeq(sides, LAMBDA e : e.token = token)
        pushed == [k \in 1..Len(hits) |-> hits[k].pool]
    IN Truncate(SortByTvlDesc(pushed), MAX_POOLS_PER_TOKEN)

ArbPath(pool_ab, pool_bc, pool_ca, a, b, c) ==
    [pool_1 |-> pool_ab, pool_2 |-> pool_bc, pool_3 |-> pool_ca,
     token_a |-> a, token_b |-> b, token_c |-> c]

\* third loop: the pools of token_c that close the cycle
ThirdHop(pools, token_in, pool_ab, token_b, pool_bc, token_c) ==
    LET third == PoolsByToken(pools, token_c)
        acc[k \in 0..Len(third)] ==
            IF k = 0 THEN <<>>
            ELSE LET pool_ca == third[k]
                     closes_loop ==
                         \/ pool_ca.token0 = token_c /\ pool_ca.token1 = token_in
                         \/ pool_ca.token1 = token_c /\ pool_ca.token0 = token_in
                 IN IF pool_ca.address = pool_ab.address
                       \/ pool_ca.address = pool_bc.address
                    THEN acc[k - 1]
                    ELSE IF closes_loop
                         THEN Append(acc[k - 1],
                                     ArbPath(pool_ab, pool_bc, pool_ca,
                                             token_in, token_b, token_c))
                         ELSE acc[k - 1]
    IN acc[Len(third)]

\* second loop: the pools of token_b
SecondHop(pools, token_in, pool_ab, token_b) ==
    LET second == PoolsByToken(pools, token_b)
        acc[j \in 0..Len(second)] ==
            IF j = 0 THEN <<>>
            ELSE LET pool_bc == second[j]
                     token_c == OtherToken(pool_bc, token_b)
                 IN IF pool_bc.address = pool_ab.address THEN acc[j - 1]
                    ELSE IF token_c = token_in THEN acc[j - 1]
                    ELSE IF ~get_feeds(token_c) THEN acc[j - 1]
                    ELSE acc[j - 1]
                         \o ThirdHop(pools, token_in, pool_ab, token_b, pool_bc, token_c)
    IN acc[Len(second)]

generate_triangular_paths(pools, token_in) ==
    LET first == PoolsByToken(pools, token_in)
        acc[i \in 0..Len(first)] ==
            IF i = 0 THEN <<>>
            ELSE LET pool_ab == first[i]
                     token_b == OtherToken(pool_ab, token_in)
                 IN IF ~get_feeds(token_b) THEN acc[i - 1]
                    ELSE acc[i - 1] \o SecondHop(pools, token_in, pool_ab, token_b)
    IN acc[Len(first)]

\* ArbPath::address(index)
address(path, index) ==
    CASE index = 1 -> path.pool_1.address
      [] index = 2 -> path.pool_2.address
      [] index = 3 -> path.pool_3.address
      [] OTHER -> "0x0"

\* ArbPath::key: the three pool addresses joined by '-'
key(path) ==
    << path.pool_1.address, "-", path.pool_2.address, "-", path.pool_3.address >>

\* variant: only the first pool of a route is claimed
PathPoolsFirstOnly(path) == {address(path, 1)}

PathPools(path) == {address(path, 1), address(path, 2), address(path, 3)}

(***************************************************************************)
(* paths.rs: ArbPath::simulate_v3_path.                                    *)
(***************************************************************************)
\* Option: None and Some(x)
None == <<>>
Some(x) == <<x>>

\* what simulator::quote_exact_input_single answers when it fails
QuoteErr == -1

\* the (token_in, token_out) of a hop: the side of the pool that equals the
\* expected input token decides the direction
HopTokens(pool, expected_in) ==
    IF pool.token0 = expected_in
    THEN [token_in |-> pool.token0, token_out |-> pool.token1]
    ELSE [token_in |-> pool.token1, token_out |-> pool.token0]

\* the call quote_exact_input_single(.., token_in, token_out, fee, amount) of a
\* hop and its answer
QuoteCall(pool, expected_in, amount, answer) ==
    [pool |-> pool.address,
     token_in |-> HopTokens(pool, expected_in).token_in,
     token_out |-> HopTokens(pool, expected_in).token_out,
     fee |-> pool.fee,
     amount_in |-> amount,
     answer |-> answer]

\* variant: a zero intermediate amount is passed on
ZeroAmountPassed(amount) == FALSE

\* amount_out.is_zero() after hops 1 and 2
ZeroAmount(amount) == amount = 0

\* simulate_v3_path; answers[k] is what the quoter answers if hop k is quoted
simulate_v3_path(path, amount_in, answers) ==
    LET call_1 == QuoteCall(path.pool_1, path.token_a, amount_in, answers[1])
        call_2 == QuoteCall(path.pool_2, path.token_b, answers[1], answers[2])
        call_3 == QuoteCall(path.pool_3, path.token_c, answers[2], answers[3])
    IN IF answers[1] = QuoteErr \/ ZeroAmount(answers[1])
       THEN [calls |-> <<call_1>>, result |-> None]
       ELSE IF answers[2] = QuoteErr \/ ZeroAmount(answers[2])
       THEN [calls |-> <<call_1, call_2>>, result |-> None]
       ELSE IF answers[3] = QuoteErr
       THEN [calls |-> <<call_1, call_2, call_3>>, result |-> None]
       ELSE [calls |-> <<call_1, call_2, call_3>>, result |-> Some(answers[3])]

(***************************************************************************)
(* lib.rs: the per-block lock set.                                         *)
(***************************************************************************)
DigitChars == <<"0", "1", "2", "3", "4", "5", "6", "7", "8", "9">>

\* u64 Display: the decimal digits of n
RECURSIVE FormatU64(_)
FormatU64(n) ==
    IF n < 10 THEN <<DigitChars[n + 1]>>
    ELSE Append(FormatU64(n \div 10), DigitChars[(n % 10) + 1])

\* str::parse::<u64>: the value of a non-empty string of digits, -1 for Err
RECURSIVE ParseU64(_)
ParseU64(str) ==
    IF Len(str) = 0 THEN -1
    ELSE LET last == str[Len(str)]
             d == IF \E i \in 1..10 : DigitChars[i] = last
                  THEN (CHOOSE i \in 1..10 : DigitChars[i] = last) - 1
                  ELSE -1
             init == IF Len(str) = 1 THEN 0 ELSE ParseU64(SubSeq(str, 1, Len(str) - 1))
         IN IF d < 0 \/ init < 0 THEN -1 ELSE init * 10 + d

\* k.split('-').next(): the part of k before its first '-'
FirstSegment(k) ==
    IF \E i \in 1..Len(k) : k[i] = "-"
    THEN SubSeq(k, 1, (CHOOSE i \in 1..Len(k) : k[i] = "-" /\ \A j \in 1..(i - 1) : k[j] # "-") - 1)
    ELSE k

\* variant: the lock key leaves the block number out
LockKeyNoBlock(block, path) == key(path)

\* format!("{}-{}", block_number, key)
LockKey(block, path) == FormatU64(block) \o <<"-">> \o key(path)

\* variant: the insertion always reports a new key
lock_opportunity_always(executed, block, path) ==
    [ret |-> TRUE, executed |-> executed \cup {LockKey(block, path)}]

\* lock_opportunity: HashSet::insert, true when the key was not present
lock_opportunity(executed, block, path) ==
    [ret |-> LockKey(block, path) \notin executed,
     executed |-> executed \cup {LockKey(block, path)}]

\* variant: a lock taken exactly 10 blocks before is pruned too
RetainLockStrict(k, current_block) ==
    LET bn == ParseU64(FirstSegment(k))
    IN IF bn >= 0 THEN bn + LOCK_RETENTION_BLOCKS > current_block ELSE TRUE

\* variant: only the locks of later blocks are kept
RetainLockLaterOnly(k, current_block) ==
    LET bn == ParseU64(FirstSegment(k))
    IN IF bn >= 0 THEN bn > current_block ELSE TRUE

\* the predicate of HashSet::retain in clear_old_locks
RetainLock(k, current_block) ==
    LET bn == ParseU64(FirstSegment(k))
    IN IF bn >= 0 THEN bn + LOCK_RETENTION_BLOCKS >= current_block ELSE TRUE

clear_old_locks(executed, current_block) ==
    {k \in executed : RetainLock(k, current_block)}

(***************************************************************************)
(* The mutexes: where each handler locks, unlocks and awaits.              *)
(***************************************************************************)
LockEv(mutex) == [op |-> "lock", mutex |-> mutex]
UnlockEv(mutex) == [op |-> "unlock", mutex |-> mutex]
AwaitEv == [op |-> "await", mutex |-> "none"]

\* the mutexes held just before the k-th event
HeldBefore(evs, k) ==
    {evs[i].mutex : i \in {j \in 1..(k - 1) :
        /\ evs[j].op = "lock"
        /\ \A u \in (j + 1)..(k - 1) : evs[u] # UnlockEv(evs[j].mutex)}}

\* the mutexes held at an await of the events, or at the suspension point
\* that follows them
HeldAtAwaits(evs) ==
    UNION {HeldBefore(evs, k) :
               k \in {j \in 1..Len(evs) : evs[j].op = "await"} \cup {Len(evs) + 1}}

\* lib.rs: lock_opportunity and clear_old_locks lock EXECUTED_OPPORTUNITIES
\* and return, which drops the guard
LockFunctionEvents == << LockEv("EXECUTED_OPPORTUNITIES"), UnlockEv("EXECUTED_OPPORTUNITIES") >>

\* strategy.rs: the refresh awaits load_all_pools_v3, then clears the locks
RefreshEvents == <<AwaitEv>> \o LockFunctionEvents

\* strategy.rs: the spawn loop locks ROUTE_STATS inside the block that
\* computes is_in_cooldown, once per path, then the loop awaits the tasks
SpawnLoopEvents(n) ==
    [k \in 1..(2 * n) |-> IF k % 2 = 1 THEN LockEv("ROUTE_STATS") ELSE UnlockEv("ROUTE_STATS")]
        \o <<AwaitEv>>

\* variant: the optimizer locks ROUTE_STATS before its last simulation
OptimizerEventsLockEarly(accepted) ==
    IF accepted THEN << LockEv("ROUTE_STATS"), AwaitEv, UnlockEv("ROUTE_STATS") >> ELSE <<>>

\* math.rs: past the threshold the optimizer awaits simulate_v3_path, then
\* locks ROUTE_STATS and returns without another await
OptimizerEvents(accepted) ==
    IF accepted THEN << AwaitEv, LockEv("ROUTE_STATS"), UnlockEv("ROUTE_STATS") >> ELSE <<>>

\* strategy.rs: the selection calls lock_opportunity n times, then awaits
\* execute_arbitrage_bundle
SelectionEvents(n) ==
    [k \in 1..(2 * n) |-> IF k % 2 = 1 THEN LockEv("EXECUTED_OPPORTUNITIES")
                          ELSE UnlockEv("EXECUTED_OPPORTUNITIES")]
        \o <<AwaitEv>>

\* strategy.rs: a match arm locks ROUTE_STATS, updates the entry and ends
RecordEvents == << LockEv("ROUTE_STATS"), UnlockEv("ROUTE_STATS") >>

(***************************************************************************)
(* math.rs: the route history.                                             *)
(***************************************************************************)
\* RouteHistory::default()
DefaultHistory ==
    [successes |-> 0, failures |-> 0, last_attempt_block |-> 0, last_failure_block |-> 0]

\* HashMap::entry(k).or_default()
OrDefault(map, k) == IF k \in DOMAIN map THEN map[k] ELSE DefaultHistory

\* HashMap entry written back
Put(map, k, v) == [x \in DOMAIN map \cup {k} |-> IF x = k THEN v ELSE map[x]]

\* variant: a route without outcomes has a winrate of zero
winrate_unseen_zero(h) ==
    LET total == h.successes + h.failures
    IN IF total = 0 THEN 0 ELSE (100 * h.successes) \div total

\* RouteHistory::winrate in percent (50 for an entry without outcomes)
winrate(h) ==
    LET total == h.successes + h.failures
    IN IF total = 0 THEN 50 ELSE (100 * h.successes) \div total

\* floor(log10(x)) for x >= 1, and f64::max(1.0)
RECURSIVE Log10(_)
Log10(x) == IF x < 10 THEN 0 ELSE 1 + Log10(x \div 10)

Max(a, b) == IF a >= b THEN a ELSE b

\* the (path.pool_1.tvl_usd + path.pool_2.tvl_usd + path.pool_3.tvl_usd) / 3
TvlAvg(path) == (path.pool_1.tvl_usd + path.pool_2.tvl_usd + path.pool_3.tvl_usd) \div 3

\* score = net_profit_usd * (1 + lag) * winrate * fee_efficiency * max(log10(tvl_avg), 1)
\* with lag = 0, winrate in percent and fee_efficiency in permille
Score(path, net_profit_usd, h) ==
    LET total_fee_bps == path.pool_1.fee + path.pool_2.fee + path.pool_3.fee
        fee_efficiency == (1000 * 10000) \div (10000 + total_fee_bps)
    IN net_profit_usd * winrate(h) * fee_efficiency * Max(Log10(TvlAvg(path)), 1)

(***************************************************************************)
(* State.                                                                  *)
(***************************************************************************)
VARIABLES
    pc,                        \* the event loop: "recv", "eval", "exec", "record", "stopped",
                               \* "aborted" (by abort_all), "exited" (the runtime is gone)
                               \* (a function run on its own has its own positions)
    pools,                     \* strategy.rs: let mut pools
    paths,                     \* strategy.rs: let mut paths
    last_refresh_block,        \* strategy.rs: let mut last_refresh_block
    block_number,              \* number of the block being processed
    base_gas_price,            \* base fee of the block being processed
    tasks,                     \* route-evaluation tasks in flight, with what they captured
    profitable_opportunities,  \* opportunities collected for the block, in completion order
    bundle_to_execute,         \* the bundle handed to execute_arbitrage_bundle
    members,                   \* the execution task of every bundle member
    results,                   \* results joined by execute_arbitrage_bundle, in order
    ROUTE_STATS,               \* math.rs: route key -> RouteHistory
    EXECUTED_OPPORTUNITIES,    \* lib.rs: the lock set
    spawned,                   \* evaluation tasks spawned so far
    admissions,                \* history: <<block, route key>> of every admission
    in_order,                  \* history: blocks came in non-decreasing order
    events,                    \* block events processed so far
    lock_log,                  \* history: the calls of lock_opportunity made on its own
    refreshes,                 \* history: the block numbers at which the loop refreshed
    sim,                       \* simulate_v3_path called on its own: its quote calls and result
    eval,                      \* a route evaluation made on its own: its inputs and result
    stream,                    \* the block listener and the broadcast channel, on their own
    held,                      \* mutexes held at the suspension points of the last step
    search                     \* the golden-section search run on its own: its bracket

vars ==
    << pc, pools, paths, last_refresh_block, block_number, base_gas_price, tasks,
       profitable_opportunities, bundle_to_execute, members, results, ROUTE_STATS,
       EXECUTED_OPPORTUNITIES, spawned, admissions, in_order, events, lock_log, refreshes, sim, eval, stream, held, search >>

\* CONFIG.min_profit_usd, DEFAULT_MIN_PROFIT_USD = 0.1 in whole dollars: the
\* profits of the model are whole numbers, and p <= 0.1 exactly when p <= 0
min_profit_usd == 0

\* what the price feed answers for WETH: no price, or a price
EthPrices == {2}
NoPrice == 0

\* block.number of the headers the feed delivers: the first two blocks, the
\* last block of the cooldown window of a failure at block 0, and the blocks
\* from the cooldown length up to MaxBlock
BlockNumbers ==
    {0, 1, ROUTE_FAILURE_COOLDOWN_BLOCKS - 1} \cup (ROUTE_FAILURE_COOLDOWN_BLOCKS..MaxBlock)

\* block.base_fee_per_gas of the header with a given number (None reads as zero)
BaseFeeOf(block) == block % 3

(***************************************************************************)
(* strategy.rs: the event loop, from the block event to the selection.     *)
(***************************************************************************)
\* variant: the cooldown lasts one block longer
is_in_cooldown_inclusive(stats_map, path, block) ==
    IF key(path) \in DOMAIN stats_map
    THEN block <= stats_map[key(path)].last_failure_block + ROUTE_FAILURE_COOLDOWN_BLOCKS
    ELSE FALSE

\* the cooldown test of the spawn loop
is_in_cooldown(stats_map, path, block) ==
    IF key(path) \in DOMAIN stats_map
    THEN block < stats_map[key(path)].last_failure_block + ROUTE_FAILURE_COOLDOWN_BLOCKS
    ELSE FALSE

\* the refresh test
RefreshDue(block) ==
    \/ last_refresh_block = 0
    \/ saturating_sub(block, last_refresh_block) >= path_refresh_interval_blocks

\* the tasks pushed by the spawn loop: one per path that is not in cooldown
SpawnTasks(ps, block, base_fee) ==
    {[idx |-> i, path |-> ps[i], block |-> block, base_fee |-> base_fee] :
        i \in {j \in 1..Len(ps) : ~is_in_cooldown(ROUTE_STATS, ps[j], block)}}

\* the part of the loop body after the refresh: read the base fee, spawn
SpawnEvaluations(ps, block, base_fee, events_before) ==
    /\ spawned + Cardinality(SpawnTasks(ps, block, base_fee)) <= MaxSpawned
    /\ events < MaxEvents
    /\ events' = events + 1
    /\ block_number' = block
    /\ base_gas_price' = base_fee
    /\ tasks' = SpawnTasks(ps, block, base_fee)
    /\ spawned' = spawned + Cardinality(SpawnTasks(ps, block, base_fee))
    /\ profitable_opportunities' = <<>>
    /\ in_order' = (in_order /\ block >= block_number)
    /\ pc' = "eval"
    /\ held' = HeldAtAwaits(events_before \o SpawnLoopEvents(Len(ps)))

\* a block event arrives while no refresh is due
RecvBlock(block, base_fee) ==
    /\ pc = "recv"
    /\ ~RefreshDue(block)
    /\ SpawnEvaluations(paths, block, base_fee, <<>>)
    /\ UNCHANGED << pools, paths, last_refresh_block, bundle_to_execute, members,
                    results, ROUTE_STATS, EXECUTED_OPPORTUNITIES, admissions, lock_log, refreshes, sim, eval, stream, search >>

\* a block event arrives, a refresh is due and the pools are loaded
RecvBlockRefresh(block, base_fee, loaded) ==
    /\ pc = "recv"
    /\ RefreshDue(block)
    /\ pools' = loaded
    /\ paths' = generate_triangular_paths(loaded, token_in_address)
    /\ last_refresh_block' = block
    /\ EXECUTED_OPPORTUNITIES' = clear_old_locks(EXECUTED_OPPORTUNITIES, block)
    /\ SpawnEvaluations(paths', block, base_fee, RefreshEvents)
    /\ refreshes' = Append(refreshes, block)
    /\ UNCHANGED << bundle_to_execute, members, results, ROUTE_STATS, admissions, lock_log, sim, eval, stream, search >>

\* a block event arrives, a refresh is due and load_all_pools_v3 fails: the
\* `?` returns the error from event_handler
RecvBlockRefreshFails(block) ==
    /\ pc = "recv"
    /\ RefreshDue(block)
    /\ block_number' = block
    /\ UNCHANGED events
    /\ in_order' = (in_order /\ block >= block_number)
    /\ pc' = "stopped"
    /\ UNCHANGED << pools, paths, last_refresh_block, base_gas_price, tasks,
                    profitable_opportunities, bundle_to_execute, members, results,
                    ROUTE_STATS, EXECUTED_OPPORTUNITIES, spawned, admissions, lock_log, refreshes, sim, eval, stream, held, search >>

(***************************************************************************)
(* math.rs: the end of find_best_trade_golden_section.                     *)
(***************************************************************************)
\* the opportunity built for a best profit above the threshold; amounts are
\* in units of the bracket midpoint
Opportunity(path, net_profit_usd, expected_output, base_fee, h) ==
    [path |-> path,
     optimal_amount_in |-> 1,
     expected_output |-> expected_output,
     net_profit_usd |-> net_profit_usd,
     bribe_usd |-> (4 * (net_profit_usd + base_fee)) \div 5,
     tvl |-> TvlAvg(path),
     score |-> Score(path, net_profit_usd, h),
     slippage_bps |-> 0]

\* variant: a best profit equal to the threshold is accepted
AtMostThresholdStrict(best) == best < min_profit_usd

\* net_profit_usd <= CONFIG.min_profit_usd
AtMostThreshold(best) == best <= min_profit_usd

\* find_best_trade_golden_section from the end of the search on: the
\* threshold test, the history entry, the opportunity.  The result is the
\* Option returned and the route history left behind.
FinishEvaluation(stats_map, path, block, base_fee, best, expected_output) ==
    IF AtMostThreshold(best)
    THEN [opp |-> None, stats_map |-> stats_map]
    ELSE LET stats == [OrDefault(stats_map, key(path)) EXCEPT !.last_attempt_block = block]
         IN [opp |-> Some(Opportunity(path, best, expected_output, base_fee, stats)),
             stats_map |-> Put(stats_map, key(path), stats)]

\* variant: the profit is computed whatever the oracle price
BestProfitUnpriced(oracle_price_usd, eth_price_usd, gain) == gain

\* max(f1, f2) of get_profit_for_amount at the points of the search, all of
\* them above zero: -1.0 when a price is not positive, otherwise the best
\* simulated profit (gain; the simulation failing or not gaining is below 0.1)
BestProfit(oracle_price_usd, eth_price_usd, gain) ==
    IF oracle_price_usd <= 0 \/ eth_price_usd <= 0 THEN -1 ELSE gain

\* the body of an evaluation task: spot price, oracle price of the start
\* token (get_max_profit_oracle answers None when the oracle has no price),
\* ETH price, search, and the end of find_best_trade_golden_section
evaluate_route(stats_map, path, block, base_fee, spot_ok, oracle_info, eth_price, gain) ==
    IF ~spot_ok THEN [opp |-> None, stats_map |-> stats_map]
    ELSE IF oracle_info = None THEN [opp |-> None, stats_map |-> stats_map]
    ELSE IF eth_price = NoPrice THEN [opp |-> None, stats_map |-> stats_map]
    ELSE FinishEvaluation(stats_map, path, block, base_fee,
                          BestProfit(oracle_info[1], eth_price, gain), 2)

\* a route-evaluation task completes.  best = 0 stands for every way of
\* yielding None before the search ends (no spot price, no oracle price, no
\* ETH price, a panic of the task); otherwise best is max(f1, f2).  The
\* collection keeps the Some(..) results, in completion order.
EvalFinish(t, best) ==
    /\ pc = "eval"
    /\ t \in tasks
    /\ tasks' = tasks \ {t}
    /\ LET out == FinishEvaluation(ROUTE_STATS, t.path, t.block, t.base_fee, best, 2)
       IN /\ ROUTE_STATS' = out.stats_map
          /\ profitable_opportunities' = profitable_opportunities \o out.opp
    /\ held' = HeldAtAwaits(OptimizerEvents(~AtMostThreshold(best)))
    /\ UNCHANGED << pc, pools, paths, last_refresh_block, block_number, base_gas_price,
                    bundle_to_execute, members, results, EXECUTED_OPPORTUNITIES,
                    spawned, admissions, in_order, events, lock_log, refreshes, sim, eval, stream, search >>

(***************************************************************************)
(* strategy.rs: ranking and selection of the bundle.                       *)
(***************************************************************************)
\* variant: the candidates are left in completion order
SortByScoreNone(s) == s

\* Vec::sort_by on score, descending; the sort is stable
RECURSIVE SortByScoreDesc(_)
SortByScoreDesc(s) ==
    IF Len(s) <= 1 THEN s
    ELSE LET n == Len(s)
             head == SortByScoreDesc(SubSeq(s, 1, n - 1))
             x == s[n]
             k == Cardinality({i \in 1..(n - 1) : head[i].score >= x.score})
         IN SubSeq(head, 1, k) \o <<x>> \o SubSeq(head, k + 1, n - 1)

\* variant: the two values of the middle TVL tier change places
calculate_dynamic_slippage_swapped(tvl, net_profit_usd) ==
    IF tvl > 5000000
    THEN (IF net_profit_usd < 100 THEN 8 ELSE IF net_profit_usd < 1000 THEN 12 ELSE 15)
    ELSE IF tvl > 500000
         THEN (IF net_profit_usd < 50 THEN 25 ELSE 18)
         ELSE 40

calculate_dynamic_slippage(tvl, net_profit_usd) ==
    IF tvl > 5000000
    THEN (IF net_profit_usd < 100 THEN 8 ELSE IF net_profit_usd < 1000 THEN 12 ELSE 15)
    ELSE IF tvl > 500000
         THEN (IF net_profit_usd < 50 THEN 18 ELSE 25)
         ELSE 40

\* variant: the walk stops once the bundle holds more than the bundle size
BundleFullLate(bundle) == Len(bundle) > OPPORTUNITY_BUNDLE_SIZE

\* bundle_to_execute.len() >= OPPORTUNITY_BUNDLE_SIZE
BundleFull(bundle) == Len(bundle) >= OPPORTUNITY_BUNDLE_SIZE

\* variant: the lock is taken before the pools are tested
WalkStepLockFirst(acc, opp, block) ==
    LET final_opp ==
            [opp EXCEPT !.slippage_bps =
                            calculate_dynamic_slippage(opp.tvl, opp.net_profit_usd)]
        lock == lock_opportunity(acc.executed, block, final_opp.path)
    IN IF BundleFull(acc.bundle) THEN acc
       ELSE IF ~lock.ret THEN [acc EXCEPT !.executed = lock.executed]
       ELSE IF PathPools(opp.path) \cap acc.used_pools # {}
            THEN [acc EXCEPT !.executed = lock.executed]
            ELSE [bundle |-> Append(acc.bundle, final_opp),
                  used_pools |-> acc.used_pools \cup PathPools(opp.path),
                  executed |-> lock.executed]

\* one pass of `for opp in profitable_opportunities`: break when the bundle
\* is full, continue on a pool already used, admit when the lock is new
WalkStep(acc, opp, block) ==
    LET final_opp ==
            [opp EXCEPT !.slippage_bps =
                            calculate_dynamic_slippage(opp.tvl, opp.net_profit_usd)]
        lock == lock_opportunity(acc.executed, block, final_opp.path)
    IN IF BundleFull(acc.bundle) THEN acc
       ELSE IF PathPools(opp.path) \cap acc.used_pools # {} THEN acc
       ELSE IF lock.ret
            THEN [bundle |-> Append(acc.bundle, final_opp),
                  used_pools |-> acc.used_pools \cup PathPools(opp.path),
                  executed |-> lock.executed]
            ELSE [acc EXCEPT !.executed = lock.executed]

\* the greedy walk over the sorted candidates: the bundle, the pools it
\* uses and the lock set after the first i candidates
SelectWalk(sorted, block, executed) ==
    LET walk[i \in 0..Len(sorted)] ==
            IF i = 0
            THEN [bundle |-> <<>>, used_pools |-> {}, executed |-> executed]
            ELSE WalkStep(walk[i - 1], sorted[i], block)
    IN walk[Len(sorted)]

\* variant: the collection does not wait for the tasks
AllEvaluationsJoinedNoWait == TRUE

\* tasks.filter_map(..).collect().await has returned: every task was joined
AllEvaluationsJoined == tasks = {}

\* the execution task spawned for a bundle member
SpawnMember(opp, block, base_fee) ==
    [opp |-> opp, block |-> block, base_fee |-> base_fee,
     st |-> "spawned", priority_fee_in_gwei |-> 0, sent |-> <<>>, steps |-> <<>>]

\* no evaluation produced an opportunity: `continue`
NoOpportunities ==
    /\ pc = "eval"
    /\ AllEvaluationsJoined
    /\ profitable_opportunities = <<>>
    /\ pc' = "recv"
    /\ UNCHANGED << pools, paths, last_refresh_block, block_number, base_gas_price, tasks,
                    profitable_opportunities, bundle_to_execute, members, results,
                    ROUTE_STATS, EXECUTED_OPPORTUNITIES, spawned, admissions, in_order, events, lock_log, refreshes, sim, eval, stream, held, search >>

\* sort, select; the bundle is not empty and is handed to execution
SelectBundle ==
    /\ pc = "eval"
    /\ AllEvaluationsJoined
    /\ profitable_opportunities # <<>>
    /\ LET sel == SelectWalk(SortByScoreDesc(profitable_opportunities), block_number,
                             EXECUTED_OPPORTUNITIES)
       IN /\ sel.bundle # <<>>
          /\ EXECUTED_OPPORTUNITIES' = sel.executed
          /\ bundle_to_execute' = sel.bundle
          /\ members' = [i \in 1..Len(sel.bundle) |->
                            SpawnMember(sel.bundle[i], block_number, base_gas_price)]
          /\ admissions' = admissions
                \o [i \in 1..Len(sel.bundle) |-> <<block_number, key(sel.bundle[i].path)>>]
    /\ results' = <<>>
    /\ pc' = "exec"
    /\ held' = HeldAtAwaits(SelectionEvents(Len(profitable_opportunities)))
    /\ UNCHANGED << pools, paths, last_refresh_block, block_number, base_gas_price, tasks,
                    profitable_opportunities, ROUTE_STATS, spawned, in_order, events, lock_log, refreshes, sim, eval, stream, search >>

\* sort, select; every candidate was locked already and nothing is executed
SelectNothing ==
    /\ pc = "eval"
    /\ AllEvaluationsJoined
    /\ profitable_opportunities # <<>>
    /\ LET sel == SelectWalk(SortByScoreDesc(profitable_opportunities), block_number,
                             EXECUTED_OPPORTUNITIES)
       IN /\ sel.bundle = <<>>
          /\ EXECUTED_OPPORTUNITIES' = sel.executed
    /\ profitable_opportunities' = <<>>
    /\ pc' = "recv"
    /\ held' = HeldAtAwaits(SelectionEvents(Len(profitable_opportunities)))
    /\ UNCHANGED << pools, paths, last_refresh_block, block_number, base_gas_price, tasks,
                    bundle_to_execute, members, results, ROUTE_STATS, spawned,
                    admissions, in_order, events, lock_log, refreshes, sim, eval, stream, search >>

(***************************************************************************)
(* execution.rs: execute_arbitrage_bundle and execute_single_transaction.  *)
(***************************************************************************)
Running(m) == m.st \in {"spawned", "sending"}

\* the result a member's task returns: Ok((tx_hash, path_key)) or Err((e, path_key))
TaskResult(m, ok) == [ok |-> ok, path_key |-> key(m.opp.path)]

\* the check at the top of execute_single_transaction
InvalidAmounts(opp) ==
    opp.optimal_amount_in = 0 \/ opp.expected_output <= opp.optimal_amount_in

\* variant: the priority fee doubles on a retry
EscalateFeeDouble(gwei) == gwei * 2

\* (priority_fee_in_gwei as f64 * 1.5) as u64
EscalateFee(gwei) == (gwei * 3) \div 2

\* variant: the amounts are checked after encoding and gas estimation
PrepareStepsLate(invalid) == <<"encode", "estimate_gas", "validate">>

\* what execute_single_transaction does before it asks for the ETH price:
\* the check of the amounts returns Err at once, otherwise the call data is
\* encoded and provider::estimate_gas is awaited
PrepareSteps(invalid) ==
    IF invalid THEN <<"validate">> ELSE <<"validate", "encode", "estimate_gas">>

\* execute_single_transaction up to the retry loop: validation, encoding,
\* gas estimate (which never fails), ETH price, first priority fee.
\* eth_price is what the price feed answers.
ExecPrepare(i, eth_price) ==
    /\ pc = "exec"
    /\ i \in DOMAIN members
    /\ members[i].st = "spawned"
    /\ IF InvalidAmounts(members[i].opp) \/ eth_price = NoPrice
       THEN /\ members' = [members EXCEPT
                              ![i].st = "err",
                              ![i].steps = PrepareSteps(InvalidAmounts(members[i].opp))]
            /\ results' = Append(results, TaskResult(members[i], FALSE))
       ELSE /\ members' = [members EXCEPT
                              ![i].st = "sending",
                              ![i].steps = PrepareSteps(FALSE),
                              ![i].priority_fee_in_gwei = members[i].opp.bribe_usd \div eth_price]
            /\ UNCHANGED results
    /\ UNCHANGED << pc, pools, paths, last_refresh_block, block_number, base_gas_price,
                    tasks, profitable_opportunities, bundle_to_execute, ROUTE_STATS,
                    EXECUTED_OPPORTUNITIES, spawned, admissions, in_order, events, lock_log, refreshes, sim, eval, stream, held, search >>

\* variant: a fourth attempt is made
SendOutcomeFourth(attempt, accepted) ==
    IF accepted THEN "ok"
    ELSE IF attempt < MAX_SEND_ATTEMPTS THEN "sending"
    ELSE "err"

\* how a pass of the retry loop ends: Ok returns, Err retries while attempt < 2
SendOutcome(attempt, accepted) ==
    IF accepted THEN "ok"
    ELSE IF attempt < MAX_SEND_ATTEMPTS - 1 THEN "sending"
    ELSE "err"

\* one pass of the retry loop: set the fees, send; accepted is the answer of
\* the submission endpoint
ExecSend(i, accepted) ==
    /\ pc = "exec"
    /\ i \in DOMAIN members
    /\ members[i].st = "sending"
    /\ LET m == members[i]
           attempt == Len(m.sent)
           gwei == IF attempt > 0 THEN EscalateFee(m.priority_fee_in_gwei)
                   ELSE m.priority_fee_in_gwei
           tx == [priority_fee |-> gwei, max_fee_per_gas |-> m.base_fee + gwei,
                  accepted |-> accepted]
           st == SendOutcome(attempt, accepted)
       IN /\ members' = [members EXCEPT ![i].st = st,
                                        ![i].priority_fee_in_gwei = gwei,
                                        ![i].sent = Append(m.sent, tx),
                                        ![i].steps = Append(m.steps, "send")]
          /\ results' = IF st = "sending" THEN results
                        ELSE Append(results, TaskResult(m, accepted))
    /\ UNCHANGED << pc, pools, paths, last_refresh_block, block_number, base_gas_price,
                    tasks, profitable_opportunities, bundle_to_execute, ROUTE_STATS,
                    EXECUTED_OPPORTUNITIES, spawned, admissions, in_order, events, lock_log, refreshes, sim, eval, stream, held, search >>

\* a member's task ends abnormally (a panic, such as a U256 overflow in
\* calculate_amount_out_min or in base_fee + priority_fee): join_next yields
\* a JoinError, which execute_arbitrage_bundle drops
ExecAbort(i) ==
    /\ pc = "exec"
    /\ i \in DOMAIN members
    /\ Running(members[i])
    /\ members' = [members EXCEPT ![i].st = "aborted"]
    /\ UNCHANGED << pc, pools, paths, last_refresh_block, block_number, base_gas_price,
                    tasks, profitable_opportunities, bundle_to_execute, results,
                    ROUTE_STATS, EXECUTED_OPPORTUNITIES, spawned, admissions, in_order, events, lock_log, refreshes, sim, eval, stream, held, search >>

\* variant: the bundle returns without joining its tasks
AllMembersJoinedNoWait == TRUE

\* set.join_next() has returned None: every member task was joined
AllMembersJoined == \A i \in DOMAIN members : ~Running(members[i])

\* execute_arbitrage_bundle returns the collected results
BundleReturns ==
    /\ pc = "exec"
    /\ AllMembersJoined
    /\ pc' = "record"
    /\ UNCHANGED << pools, paths, last_refresh_block, block_number, base_gas_price, tasks,
                    profitable_opportunities, bundle_to_execute, members, results,
                    ROUTE_STATS, EXECUTED_OPPORTUNITIES, spawned, admissions, in_order, events, lock_log, refreshes, sim, eval, stream, held, search >>

(***************************************************************************)
(* strategy.rs: recording the execution results.                           *)
(***************************************************************************)
\* variant: a failure does not set last_failure_block
RecordOutcomeNoBlock(stats_map, result, block) ==
    LET stats == OrDefault(stats_map, result.path_key)
    IN IF result.ok
       THEN Put(stats_map, result.path_key,
                [stats EXCEPT !.successes = stats.successes + 1])
       ELSE Put(stats_map, result.path_key,
                [stats EXCEPT !.failures = stats.failures + 1])

\* the match arm for one result
RecordOutcome(stats_map, result, block) ==
    LET stats == OrDefault(stats_map, result.path_key)
    IN IF result.ok
       THEN Put(stats_map, result.path_key,
                [stats EXCEPT !.successes = stats.successes + 1])
       ELSE Put(stats_map, result.path_key,
                [stats EXCEPT !.failures = stats.failures + 1,
                              !.last_failure_block = block])

\* variant: the Err arm leaves the loop
AfterResultStopOnErr(result) == IF result.ok THEN "record" ELSE "stopped"

\* where the loop is after a match arm: neither arm returns or breaks, the
\* `for` goes on with the next result
AfterResult(result) == "record"

\* one pass of `for result in execution_results`
RecordResult ==
    /\ pc = "record"
    /\ results # <<>>
    /\ ROUTE_STATS' = RecordOutcome(ROUTE_STATS, Head(results), block_number)
    /\ results' = Tail(results)
    /\ pc' = AfterResult(Head(results))
    /\ held' = HeldAtAwaits(RecordEvents)
    /\ UNCHANGED << pools, paths, last_refresh_block, block_number, base_gas_price,
                    tasks, profitable_opportunities, bundle_to_execute, members,
                    EXECUTED_OPPORTUNITIES, spawned, admissions, in_order, events, lock_log, refreshes, sim, eval, stream, search >>

\* the results are recorded: the locals of the iteration are dropped and
\* the loop is back at event_receiver.recv()
FinishBlock ==
    /\ pc = "record"
    /\ results = <<>>
    /\ pc' = "recv"
    /\ profitable_opportunities' = <<>>
    /\ bundle_to_execute' = <<>>
    /\ members' = <<>>
    /\ UNCHANGED << pools, paths, last_refresh_block, block_number, base_gas_price, tasks,
                    results, ROUTE_STATS,
                    EXECUTED_OPPORTUNITIES, spawned, admissions, in_order, events, lock_log, refreshes, sim, eval, stream, held, search >>

(***************************************************************************)
(* The system: the event loop started by run() with the initial pools.     *)
(***************************************************************************)
\* no call of simulate_v3_path made on its own
NoSim == <<>>

\* no route evaluation made on its own
NoEval == <<>>

\* the listener and the channel are not followed
NoStream == <<>>

\* no search run on its own
NoSearch == <<>>

Init ==
    /\ pc = "recv"
    /\ pools \in PoolCatalogs
    /\ paths = generate_triangular_paths(pools, token_in_address)
    /\ last_refresh_block = 0
    /\ block_number = 0
    /\ base_gas_price = 0
    /\ tasks = {}
    /\ profitable_opportunities = <<>>
    /\ bundle_to_execute = <<>>
    /\ members = <<>>
    /\ results = <<>>
    /\ ROUTE_STATS = <<>>
    /\ EXECUTED_OPPORTUNITIES = {}
    /\ spawned = 0
    /\ admissions = <<>>
    /\ in_order = TRUE
    /\ events = 0
    /\ lock_log = <<>>
    /\ refreshes = <<>>
    /\ sim = NoSim
    /\ eval = NoEval
    /\ stream = NoStream
    /\ held = {}
    /\ search = NoSearch

Next ==
    \/ \E block \in BlockNumbers : RecvBlock(block, BaseFeeOf(block))
    \/ \E block \in BlockNumbers, loaded \in PoolCatalogs :
           RecvBlockRefresh(block, BaseFeeOf(block), loaded)
    \/ \E block \in BlockNumbers : RecvBlockRefreshFails(block)
    \/ \E t \in tasks, best \in 0..MaxProfit : EvalFinish(t, best)
    \/ NoOpportunities
    \/ SelectBundle
    \/ SelectNothing
    \/ \E i \in DOMAIN members, eth_price \in EthPrices \cup {NoPrice} : ExecPrepare(i, eth_price)
    \/ \E i \in DOMAIN members, accepted \in BOOLEAN : ExecSend(i, accepted)
    \/ \E i \in DOMAIN members : ExecAbort(i)
    \/ BundleReturns
    \/ RecordResult
    \/ FinishBlock

Spec == Init /\ [][Next]_vars

\* the same with the scheduling of the runtime: a task that can take a step
\* takes one, and a network call that is awaited returns
SpecLive == Spec /\ WF_vars(Next)

(***************************************************************************)
(* lib.rs: run() handles Ctrl+C.                                           *)
(***************************************************************************)
\* what the abort of the strategy task does to a member task: the JoinSet
\* of execute_arbitrage_bundle is dropped with the future, and a JoinSet
\* aborts its tasks when dropped
AbortMember(m) == IF Running(m) THEN [m EXCEPT !.st = "aborted"] ELSE m

\* tokio::signal::ctrl_c() completes: set.abort_all() aborts the listener
\* and the strategy task, which are dropped at the await they are suspended
\* at.  The evaluation tasks were started with tokio::spawn and only their
\* JoinHandles are dropped with the FuturesUnordered: they stay in flight.
CtrlC ==
    /\ pc \in {"recv", "eval", "exec"}
    /\ pc' = "aborted"
    /\ members' = [i \in DOMAIN members |-> AbortMember(members[i])]
    /\ UNCHANGED << pools, paths, last_refresh_block, block_number, base_gas_price, tasks,
                    profitable_opportunities, bundle_to_execute, results, ROUTE_STATS,
                    EXECUTED_OPPORTUNITIES, spawned, admissions, in_order, events,
                    lock_log, refreshes, sim, eval, stream, held, search >>

\* an evaluation task left in flight runs to its end: its result has no
\* receiver, its write to ROUTE_STATS is made
EvalFinishDetached(t, best) ==
    /\ pc = "aborted"
    /\ t \in tasks
    /\ tasks' = tasks \ {t}
    /\ ROUTE_STATS' = FinishEvaluation(ROUTE_STATS, t.path, t.block, t.base_fee, best, 2).stats_map
    /\ held' = HeldAtAwaits(OptimizerEvents(~AtMostThreshold(best)))
    /\ UNCHANGED << pc, pools, paths, last_refresh_block, block_number, base_gas_price,
                    profitable_opportunities, bundle_to_execute, members, results,
                    EXECUTED_OPPORTUNITIES, spawned, admissions, in_order, events,
                    lock_log, refreshes, sim, eval, stream, search >>

\* run() has returned and the runtime is dropped: what is left is cancelled
RuntimeShutdown ==
    /\ pc = "aborted"
    /\ pc' = "exited"
    /\ tasks' = {}
    /\ UNCHANGED << pools, paths, last_refresh_block, block_number, base_gas_price,
                    profitable_opportunities, bundle_to_execute, members, results,
                    ROUTE_STATS, EXECUTED_OPPORTUNITIES, spawned, admissions, in_order,
                    events, lock_log, refreshes, sim, eval, stream, held, search >>

NextCancel ==
    \/ Next
    \/ CtrlC
    \/ \E t \in tasks, best \in 0..MaxProfit : EvalFinishDetached(t, best)
    \/ RuntimeShutdown

SpecCancel == Init /\ [][NextCancel]_vars

(***************************************************************************)
(* streams.rs: stream_new_blocks, the broadcast channel made by run() and  *)
(* the receiving end of event_handler.                                     *)
(***************************************************************************)
\* broadcast::Sender::send: Err when no receiver is subscribed; otherwise
\* the value is stored, and once the receiver is a full channel behind the
\* oldest value is overwritten and counted as missed
ChannelSend(ch, block) ==
    IF ~ch.subscribed THEN [ok |-> FALSE, ch |-> ch]
    ELSE IF Len(ch.queue) < BROADCAST_CAPACITY
         THEN [ok |-> TRUE, ch |-> [ch EXCEPT !.queue = Append(ch.queue, block)]]
         ELSE [ok |-> TRUE,
               ch |-> [ch EXCEPT !.queue = Append(Tail(ch.queue), block),
                                 !.lagged = ch.lagged + 1]]

\* if sender.send(..).is_err() { break; }
AfterSend(ok) == IF ok THEN "running" ELSE "stopped"

\* the channel of run() before any task runs: the receiver returned by
\* channel() is dropped at once, event_handler has not subscribed yet
InitStream ==
    /\ pc = "recv"
    /\ pools = SmallCatalog
    /\ paths = generate_triangular_paths(pools, token_in_address)
    /\ last_refresh_block = 0
    /\ block_number = 0
    /\ base_gas_price = 0
    /\ tasks = {}
    /\ profitable_opportunities = <<>>
    /\ bundle_to_execute = <<>>
    /\ members = <<>>
    /\ results = <<>>
    /\ ROUTE_STATS = <<>>
    /\ EXECUTED_OPPORTUNITIES = {}
    /\ spawned = 0
    /\ admissions = <<>>
    /\ in_order = TRUE
    /\ events = 0
    /\ lock_log = <<>>
    /\ refreshes = <<>>
    /\ sim = NoSim
    /\ eval = NoEval
    /\ held = {}
    /\ search = NoSearch
    /\ stream = [listener |-> "running", subscribed |-> FALSE, queue |-> <<>>,
                 lagged |-> 0, headers |-> 0, published |-> <<>>, received |-> <<>>]

\* event_handler reaches event_sender.subscribe()
Subscribe ==
    /\ stream.listener \in {"running", "stopped"}
    /\ ~stream.subscribed
    /\ stream.received = <<>>
    /\ pc = "recv"
    /\ stream' = [stream EXCEPT !.subscribed = TRUE]
    /\ UNCHANGED << pc, pools, paths, last_refresh_block, block_number, base_gas_price, tasks,
                    profitable_opportunities, bundle_to_execute, members, results,
                    ROUTE_STATS, EXECUTED_OPPORTUNITIES, spawned, admissions, in_order,
                    events, lock_log, refreshes, sim, eval, held, search >>

\* one pass of `while let Some(block_header) = stream.next().await`:
\* fetched says whether the header has a hash and get_block returns the
\* block; a block that is not fetched is logged and skipped
ListenerBlock(fetched) ==
    /\ stream.listener = "running"
    /\ stream.headers < MaxHeaders
    /\ LET block == stream.headers + 1
           sent == ChannelSend(stream, block)
       IN IF fetched
          THEN stream' = [sent.ch EXCEPT
                              !.headers = block,
                              !.listener = AfterSend(sent.ok),
                              !.published = IF sent.ok THEN Append(stream.published, block)
                                            ELSE stream.published]
          ELSE stream' = [stream EXCEPT !.headers = block]
    /\ UNCHANGED << pc, pools, paths, last_refresh_block, block_number, base_gas_price, tasks,
                    profitable_opportunities, bundle_to_execute, members, results,
                    ROUTE_STATS, EXECUTED_OPPORTUNITIES, spawned, admissions, in_order,
                    events, lock_log, refreshes, sim, eval, held, search >>

\* event_receiver.recv().await returns: Err(Lagged) when values were
\* overwritten, which `if let Ok(..)` lets pass, otherwise the oldest value
\* not yet received
StrategyRecv ==
    /\ stream.subscribed
    /\ pc = "recv"
    /\ IF stream.lagged > 0
       THEN stream' = [stream EXCEPT !.lagged = 0]
       ELSE /\ stream.queue # <<>>
            /\ stream' = [stream EXCEPT !.queue = Tail(stream.queue),
                                        !.received = Append(stream.received, Head(stream.queue))]
    /\ UNCHANGED << pc, pools, paths, last_refresh_block, block_number, base_gas_price, tasks,
                    profitable_opportunities, bundle_to_execute, members, results,
                    ROUTE_STATS, EXECUTED_OPPORTUNITIES, spawned, admissions, in_order,
                    events, lock_log, refreshes, sim, eval, held, search >>

\* event_handler returns (the `?` of a failed refresh): its receiver is dropped
StrategyReturns ==
    /\ stream.subscribed
    /\ pc = "recv"
    /\ pc' = "stopped"
    /\ stream' = [stream EXCEPT !.subscribed = FALSE, !.queue = <<>>]
    /\ UNCHANGED << pools, paths, last_refresh_block, block_number, base_gas_price, tasks,
                    profitable_opportunities, bundle_to_execute, members, results,
                    ROUTE_STATS, EXECUTED_OPPORTUNITIES, spawned, admissions, in_order,
                    events, lock_log, refreshes, sim, eval, held, search >>

NextStream ==
    \/ Subscribe
    \/ \E fetched \in BOOLEAN : ListenerBlock(fetched)
    \/ StrategyRecv
    \/ StrategyReturns

SpecStream == InitStream /\ [][NextStream]_vars

(***************************************************************************)
(* math.rs: the golden-section search of find_best_trade_golden_section,   *)
(* run on its own.  Which of f1 and f2 is greater is the quoter's doing.   *)
(***************************************************************************)
\* width * ratio / U256::exp10(18), rounded down: the product is taken by
\* thousands so that every intermediate value stays small
MulRatio(width, ratio) ==
    LET w1 == width \div 1000
        w0 == width % 1000
        r1 == ratio \div 1000
        r0 == ratio % 1000
    IN w1 * r1 + ((w1 * r0 + w0 * r1) + (w0 * r0) \div 1000) \div 1000

\* a + (b - a) * (U256::exp10(18) - gr_u256) / U256::exp10(18)
LowerProbe(a, b) == a + MulRatio(b - a, GR_ONE - GR)

\* a + (b - a) * gr_u256 / U256::exp10(18)
UpperProbe(a, b) == a + MulRatio(b - a, GR)

\* variant: the loop runs until the bracket is within the tolerance
SearchGoesOnNoBudget(s) == s.b - s.a > SEARCH_TOL

\* the loop takes another pass: the budget is not spent and the bracket is
\* wider than the tolerance (from the bracket of SearchStart, 15 passes leave
\* a width of about 7e16 wei, so it is the budget that ends the loop)
SearchGoesOn(s) == s.rounds < SEARCH_ROUNDS /\ s.b - s.a > SEARCH_TOL

\* the state before the loop
SearchStart ==
    [a |-> SEARCH_LOW, b |-> SEARCH_HIGH,
     x1 |-> LowerProbe(SEARCH_LOW, SEARCH_HIGH), x2 |-> UpperProbe(SEARCH_LOW, SEARCH_HIGH),
     rounds |-> 0, optimal_amount |-> 0]

\* one pass of the loop
Narrow(s, f1_greater) ==
    IF f1_greater
    THEN [s EXCEPT !.b = s.x2, !.x2 = s.x1, !.x1 = LowerProbe(s.a, s.x2),
                   !.rounds = s.rounds + 1]
    ELSE [s EXCEPT !.a = s.x1, !.x1 = s.x2, !.x2 = UpperProbe(s.x1, s.b),
                   !.rounds = s.rounds + 1]

InitSearch ==
    /\ pc = "search"
    /\ pools = <<>>
    /\ paths = <<>>
    /\ last_refresh_block = 0
    /\ block_number = 0
    /\ base_gas_price = 0
    /\ tasks = {}
    /\ profitable_opportunities = <<>>
    /\ bundle_to_execute = <<>>
    /\ members = <<>>
    /\ results = <<>>
    /\ ROUTE_STATS = <<>>
    /\ EXECUTED_OPPORTUNITIES = {}
    /\ spawned = 0
    /\ admissions = <<>>
    /\ in_order = TRUE
    /\ events = 0
    /\ lock_log = <<>>
    /\ refreshes = <<>>
    /\ sim = NoSim
    /\ eval = NoEval
    /\ stream = NoStream
    /\ held = {}
    /\ search = SearchStart

\* a pass of the loop, with the comparison of f1 and f2 it finds
SearchPass(f1_greater) ==
    /\ pc = "search"
    /\ SearchGoesOn(search)
    /\ search' = Narrow(search, f1_greater)
    /\ UNCHANGED << pc, pools, paths, last_refresh_block, block_number, base_gas_price, tasks,
                    profitable_opportunities, bundle_to_execute, members, results,
                    ROUTE_STATS, EXECUTED_OPPORTUNITIES, spawned, admissions, in_order,
                    events, lock_log, refreshes, sim, eval, stream, held >>

\* the loop is left: optimal_amount = (a + b) / 2
SearchEnds ==
    /\ pc = "search"
    /\ ~SearchGoesOn(search)
    /\ search' = [search EXCEPT !.optimal_amount = (search.a + search.b) \div 2]
    /\ pc' = "searched"
    /\ UNCHANGED << pools, paths, last_refresh_block, block_number, base_gas_price, tasks,
                    profitable_opportunities, bundle_to_execute, members, results,
                    ROUTE_STATS, EXECUTED_OPPORTUNITIES, spawned, admissions, in_order,
                    events, lock_log, refreshes, sim, eval, stream, held >>

NextSearch ==
    \/ \E f1_greater \in BOOLEAN : SearchPass(f1_greater)
    \/ SearchEnds

SpecSearch == InitSearch /\ [][NextSearch]_vars

(***************************************************************************)
(* execute_arbitrage_bundle called on its own, with any bundle.            *)
(***************************************************************************)
ExecPaths == generate_triangular_paths(BigCatalog, token_in_address)

\* the opportunities a caller can hand over for the i-th route
InputOpps(i) ==
    {[path |-> ExecPaths[i],
      optimal_amount_in |-> amount,
      expected_output |-> output,
      net_profit_usd |-> 2,
      bribe_usd |-> bribe,
      tvl |-> TvlAvg(ExecPaths[i]),
      score |-> 0,
      slippage_bps |-> calculate_dynamic_slippage(TvlAvg(ExecPaths[i]), 2)] :
        amount \in 0..1, output \in 0..2, bribe \in 0..MaxBribe}

\* the bundles of n opportunities over the first n routes
RECURSIVE BundlesOf(_)
BundlesOf(n) ==
    IF n = 0 THEN {<<>>}
    ELSE {Append(b, o) : b \in BundlesOf(n - 1), o \in InputOpps(n)}

InputBundles == UNION {BundlesOf(n) : n \in 1..MaxBundle}

InitExec ==
    /\ pc = "exec"
    /\ pools = BigCatalog
    /\ paths = ExecPaths
    /\ last_refresh_block = 0
    /\ block_number = 0
    /\ base_gas_price \in {0, 3}
    /\ tasks = {}
    /\ profitable_opportunities = <<>>
    /\ bundle_to_execute \in InputBundles
    /\ members = [i \in DOMAIN bundle_to_execute |->
                     SpawnMember(bundle_to_execute[i], block_number, base_gas_price)]
    /\ results = <<>>
    /\ ROUTE_STATS = <<>>
    /\ EXECUTED_OPPORTUNITIES = {}
    /\ spawned = 0
    /\ admissions = <<>>
    /\ in_order = TRUE
    /\ events = 0
    /\ lock_log = <<>>
    /\ refreshes = <<>>
    /\ sim = NoSim
    /\ eval = NoEval
    /\ stream = NoStream
    /\ held = {}
    /\ search = NoSearch

NextExec ==
    \/ \E i \in DOMAIN members, eth_price \in EthPrices \cup {NoPrice} : ExecPrepare(i, eth_price)
    \/ \E i \in DOMAIN members, accepted \in BOOLEAN : ExecSend(i, accepted)
    \/ \E i \in DOMAIN members : ExecAbort(i)
    \/ BundleReturns

SpecExec == InitExec /\ [][NextExec]_vars

(***************************************************************************)
(* The selection of a block made on its own, over pool-disjoint routes.    *)
(***************************************************************************)
\* pool addresses of the routes below
SelectAddrs ==
    <<
       "s01", "s02", "s03", "s04", "s05", "s06", "s07", "s08", "s09",
       "s10", "s11", "s12", "s13", "s14", "s15", "s16", "s17", "s18",
       "s19", "s20", "s21", "s22", "s23", "s24", "s25", "s26", "s27",
       "s28", "s29", "s30" >>

\* the i-th route: a triangle A-B-C over three pools of its own
SelectRoute(i) ==
    ArbPath(Pool(SelectAddrs[3 * i - 2], "A", "B", 900000, 500),
            Pool(SelectAddrs[3 * i - 1], "B", "C", 800000, 500),
            Pool(SelectAddrs[3 * i], "C", "A", 700000, 3000),
            "A", "B", "C")

\* a route that enters through the first pool of the first route
SharingRoute ==
    ArbPath(SelectRoute(1).pool_1,
            Pool("sx1", "B", "C", 800000, 500),
            Pool("sx2", "C", "A", 700000, 3000),
            "A", "B", "C")

SelectRoutes == [i \in 1..MaxRoutes |-> SelectRoute(i)] \o <<SharingRoute>>

\* the lists the evaluations of a block can collect over the first n routes:
\* each route is missing, or present with a score of 1 or 2
RECURSIVE CandidateLists(_)
CandidateLists(n) ==
    IF n = 0 THEN {<<>>}
    ELSE LET shorter == CandidateLists(n - 1)
         IN shorter \cup
            {Append(l, [Opportunity(SelectRoutes[n], 1, 2, 0, DefaultHistory)
                            EXCEPT !.score = score]) :
                 l \in shorter, score \in 1..2}

InputCandidates == CandidateLists(Len(SelectRoutes)) \ {<<>>}

\* the locks held when the selection starts: none, the first route's, or
\* every route's
InputLocks(block) ==
    { {}, {LockKey(block, SelectRoutes[1])},
      {LockKey(block, SelectRoutes[i]) : i \in DOMAIN SelectRoutes} }

InitSelect ==
    /\ pc = "eval"
    /\ pools = <<>>
    /\ paths = SelectRoutes
    /\ last_refresh_block = 1
    /\ block_number = 1
    /\ base_gas_price = BaseFeeOf(1)
    /\ tasks = {}
    /\ profitable_opportunities \in InputCandidates
    /\ bundle_to_execute = <<>>
    /\ members = <<>>
    /\ results = <<>>
    /\ ROUTE_STATS = <<>>
    /\ EXECUTED_OPPORTUNITIES \in InputLocks(1)
    /\ spawned = 0
    /\ admissions = <<>>
    /\ in_order = TRUE
    /\ events = 0
    /\ lock_log = <<>>
    /\ refreshes = <<>>
    /\ sim = NoSim
    /\ eval = NoEval
    /\ stream = NoStream
    /\ held = {}
    /\ search = NoSearch

NextSelect == SelectBundle \/ SelectNothing

SpecSelect == InitSelect /\ [][NextSelect]_vars

(***************************************************************************)
(* lock_opportunity called on its own.                                     *)
(***************************************************************************)
LockCall(block, path) ==
    /\ Len(lock_log) < MaxLockCalls
    /\ LET lock == lock_opportunity(EXECUTED_OPPORTUNITIES, block, path)
       IN /\ EXECUTED_OPPORTUNITIES' = lock.executed
          /\ lock_log' = Append(lock_log,
                                [block |-> block, path |-> path, ret |-> lock.ret])
    /\ held' = HeldAtAwaits(LockFunctionEvents)
    /\ UNCHANGED << pc, pools, paths, last_refresh_block, block_number, base_gas_price,
                    tasks, profitable_opportunities, bundle_to_execute, members, results,
                    ROUTE_STATS, spawned, admissions, in_order, events, refreshes, sim, eval, stream, search >>

InitLock ==
    /\ Init
    /\ pools = SmallCatalog

NextLock == \E block \in BlockNumbers, path \in Range(paths) : LockCall(block, path)

SpecLock == InitLock /\ [][NextLock]_vars

(***************************************************************************)
(* lock_opportunity and clear_old_locks called in any order.               *)
(***************************************************************************)
\* a call of clear_old_locks, one of the first MaxLockCalls calls made; the
\* log keeps its block number and the number of lock_opportunity calls made
\* before it
ClearCall(current_block) ==
    /\ Len(lock_log) + Len(eval) < MaxLockCalls
    /\ EXECUTED_OPPORTUNITIES' = clear_old_locks(EXECUTED_OPPORTUNITIES, current_block)
    /\ eval' = Append(eval, [current_block |-> current_block,
                             locks_before |-> Len(lock_log)])
    /\ held' = HeldAtAwaits(LockFunctionEvents)
    /\ UNCHANGED << pc, pools, paths, last_refresh_block, block_number, base_gas_price,
                    tasks, profitable_opportunities, bundle_to_execute, members, results,
                    ROUTE_STATS, spawned, admissions, in_order, events, lock_log,
                    refreshes, sim, stream, search >>

\* a call of lock_opportunity, one of the first MaxLockCalls calls made
LockCallAmongClears(block, path) ==
    /\ Len(lock_log) + Len(eval) < MaxLockCalls
    /\ LockCall(block, path)

NextLockClear ==
    \/ \E block \in BlockNumbers, path \in Range(paths) : LockCallAmongClears(block, path)
    \/ \E current_block \in BlockNumbers : ClearCall(current_block)

SpecLockClear == InitLock /\ [][NextLockClear]_vars

(***************************************************************************)
(* simulate_v3_path called on its own, on the routes of the big catalog.   *)
(***************************************************************************)
\* what the quoter can answer
QuoteAnswers == {QuoteErr} \cup (0..MaxAmount)

InitSimulate ==
    /\ pc = "simulate"
    /\ pools = BigCatalog
    /\ paths = ExecPaths
    /\ last_refresh_block = 0
    /\ block_number = 0
    /\ base_gas_price = 0
    /\ tasks = {}
    /\ profitable_opportunities = <<>>
    /\ bundle_to_execute = <<>>
    /\ members = <<>>
    /\ results = <<>>
    /\ ROUTE_STATS = <<>>
    /\ EXECUTED_OPPORTUNITIES = {}
    /\ spawned = 0
    /\ admissions = <<>>
    /\ in_order = TRUE
    /\ events = 0
    /\ lock_log = <<>>
    /\ refreshes = <<>>
    /\ sim = NoSim
    /\ eval = NoEval
    /\ stream = NoStream
    /\ held = {}
    /\ search = NoSearch

\* one call of simulate_v3_path
Simulate(path, amount_in, answers) ==
    /\ pc = "simulate"
    /\ sim' = [path |-> path, amount_in |-> amount_in,
               out |-> simulate_v3_path(path, amount_in, answers)]
    /\ pc' = "simulated"
    /\ UNCHANGED << pools, paths, last_refresh_block, block_number, base_gas_price, tasks,
                    profitable_opportunities, bundle_to_execute, members, results,
                    ROUTE_STATS, EXECUTED_OPPORTUNITIES, spawned, admissions, in_order,
                    events, lock_log, refreshes, eval, stream, held, search >>

NextSimulate ==
    \E path \in Range(paths), amount_in \in 0..MaxAmount,
       answers \in [1..3 -> QuoteAnswers] : Simulate(path, amount_in, answers)

SpecSimulate == InitSimulate /\ [][NextSimulate]_vars

(***************************************************************************)
(* A route evaluation made on its own.                                     *)
(***************************************************************************)
\* what get_max_profit_oracle answers for the start token: no price, or a
\* price, zero included
OracleAnswers == {None, Some(0), Some(1)}

\* the route history the evaluation finds: empty, or with an entry for the
\* first route
InputHistories ==
    { <<>>, Put(<<>>, key(ExecPaths[1]), [DefaultHistory EXCEPT !.successes = 1]) }

InitEvaluate ==
    /\ pc = "evaluate"
    /\ pools = BigCatalog
    /\ paths = ExecPaths
    /\ last_refresh_block = 0
    /\ block_number = 0
    /\ base_gas_price = 0
    /\ tasks = {}
    /\ profitable_opportunities = <<>>
    /\ bundle_to_execute = <<>>
    /\ members = <<>>
    /\ results = <<>>
    /\ ROUTE_STATS \in InputHistories
    /\ EXECUTED_OPPORTUNITIES = {}
    /\ spawned = 0
    /\ admissions = <<>>
    /\ in_order = TRUE
    /\ events = 0
    /\ lock_log = <<>>
    /\ refreshes = <<>>
    /\ sim = NoSim
    /\ eval = NoEval
    /\ stream = NoStream
    /\ held = {}
    /\ search = NoSearch

\* one evaluation task, from its spawn to its result
Evaluate(path, block, spot_ok, oracle_info, eth_price, gain) ==
    /\ pc = "evaluate"
    /\ LET out == evaluate_route(ROUTE_STATS, path, block, BaseFeeOf(block),
                                 spot_ok, oracle_info, eth_price, gain)
       IN /\ ROUTE_STATS' = out.stats_map
          /\ eval' = [path |-> path, block |-> block, spot_ok |-> spot_ok,
                      oracle_info |-> oracle_info, eth_price |-> eth_price,
                      gain |-> gain, stats_before |-> ROUTE_STATS, opp |-> out.opp]
          /\ held' = HeldAtAwaits(OptimizerEvents(out.opp # None))
    /\ pc' = "evaluated"
    /\ UNCHANGED << pools, paths, last_refresh_block, block_number, base_gas_price, tasks,
                    profitable_opportunities, bundle_to_execute, members, results,
                    EXECUTED_OPPORTUNITIES, spawned, admissions, in_order,
                    events, lock_log, refreshes, sim, stream, search >>

NextEvaluate ==
    \E path \in Range(paths), block \in BlockNumbers, spot_ok \in BOOLEAN,
       oracle_info \in OracleAnswers, eth_price \in EthPrices \cup {NoPrice},
       gain \in 0..MaxProfit :
        Evaluate(path, block, spot_ok, oracle_info, eth_price, gain)

SpecEvaluate == InitEvaluate /\ [][NextEvaluate]_vars

(***************************************************************************)
(* The selection of a block over candidates of any TVL and profit.         *)
(***************************************************************************)
\* TVL and net profit on both sides of every step of calculate_dynamic_slippage
SlippageTvls == {0, 500000, 500001, 5000000, 5000001}
SlippageProfits == {1, 49, 50, 99, 100, 999, 1000}

\* the candidate for the i-th route with a TVL and a net profit
SlippageCandidate(i, tvl, net_profit_usd) ==
    [Opportunity(SelectRoutes[i], net_profit_usd, 2, 0, DefaultHistory)
        EXCEPT !.tvl = tvl, !.score = 1]

\* what the evaluations of a block collect: one candidate, or two
SlippageCandidates ==
    {<<SlippageCandidate(1, tvl, p)>> : tvl \in SlippageTvls, p \in SlippageProfits}
    \cup {<<SlippageCandidate(1, tvl1, p1), SlippageCandidate(2, tvl2, p2)>> :
              tvl1 \in SlippageTvls, p1 \in SlippageProfits,
              tvl2 \in SlippageTvls, p2 \in SlippageProfits}

InitSlippage ==
    /\ pc = "eval"
    /\ pools = <<>>
    /\ paths = SelectRoutes
    /\ last_refresh_block = 1
    /\ block_number = 1
    /\ base_gas_price = BaseFeeOf(1)
    /\ tasks = {}
    /\ profitable_opportunities \in SlippageCandidates
    /\ bundle_to_execute = <<>>
    /\ members = <<>>
    /\ results = <<>>
    /\ ROUTE_STATS = <<>>
    /\ EXECUTED_OPPORTUNITIES \in InputLocks(1)
    /\ spawned = 0
    /\ admissions = <<>>
    /\ in_order = TRUE
    /\ events = 0
    /\ lock_log = <<>>
    /\ refreshes = <<>>
    /\ sim = NoSim
    /\ eval = NoEval
    /\ stream = NoStream
    /\ held = {}
    /\ search = NoSearch

NextSlippage == SelectBundle \/ SelectNothing

SpecSlippage == InitSlippage /\ [][NextSlippage]_vars

(***************************************************************************)
(* math.rs: find_best_trade_golden_section with get_profit_for_amount, on  *)
(* its own.  Amounts are in units of 1e13 wei, dollars are whole, and the  *)
(* base fee is in dollars of gas cost at DEFAULT_GAS_LIMIT, as in          *)
(* Opportunity.                                                            *)
(***************************************************************************)
\* the gas limits CONFIG can hold: GAS_LIMIT=0 in the environment, or the default
GasLimits == {0, DEFAULT_GAS_LIMIT}

\* the oracle price of the start token and of WETH in these runs
OptimizeOraclePrice == 5
OptimizeEthPrice == 2

\* what simulate_v3_path answers for an amount: None (-1), the amount itself
\* (0), or the amount plus a number of whole tokens
Quotes == (-1)..MaxGain
QuoteAnswer(amount_in, quote) ==
    IF quote < 0 THEN None ELSE Some(amount_in + quote * TOKEN_UNITS)

\* u256_to_decimal(gross_profit_u256, decimals) * oracle_price_usd
GrossProfitUsd(amount_in, out, oracle_price_usd) ==
    ((out - amount_in) \div TOKEN_UNITS) * oracle_price_usd

\* gross_profit_usd * CONFIG.max_bribe_percent
BribeUsd(gross_profit_usd) == (gross_profit_usd * MAX_BRIBE_PERCENT) \div 100

\* (base_gas_price_wei + priority_fee_wei) * gas_limit, in ETH, times the
\* ETH price.  priority_fee_wei is the whole bribe in wei (bribe_usd /
\* eth_price_usd * 1e18), so its share of the cost is bribe_usd * gas_limit
\* dollars; the rounding of priority_fee_wei to a whole wei is below 1e-8
\* dollars and is left out.
GasCostUsd(base_fee, bribe_usd, gas_limit) ==
    (base_fee * gas_limit) \div DEFAULT_GAS_LIMIT + bribe_usd * gas_limit

\* get_profit_for_amount, given the answer of simulate_v3_path
get_profit_for_amount(amount_in, answer, base_fee, oracle_price_usd, eth_price_usd, gas_limit) ==
    IF amount_in = 0 \/ oracle_price_usd <= 0 \/ eth_price_usd <= 0 THEN -1
    ELSE IF answer = None THEN -1
    ELSE IF ~(answer[1] > amount_in) THEN -1
    ELSE LET gross_profit_usd == GrossProfitUsd(amount_in, answer[1], oracle_price_usd)
             bribe_usd == BribeUsd(gross_profit_usd)
             gas_cost_usd == GasCostUsd(base_fee, bribe_usd, gas_limit)
         IN gross_profit_usd - gas_cost_usd

\* the call of get_profit_for_amount made for a trial amount, as recorded
Trial(amount_in, quote, base_fee, gas_limit) ==
    [amount_in |-> amount_in,
     answer |-> QuoteAnswer(amount_in, quote),
     f |-> get_profit_for_amount(amount_in, QuoteAnswer(amount_in, quote), base_fee,
                                 OptimizeOraclePrice, OptimizeEthPrice, gas_limit)]

InitOptimize ==
    /\ pc = "optimize"
    /\ pools = BigCatalog
    /\ paths = ExecPaths
    /\ last_refresh_block = 0
    /\ block_number = 1
    /\ base_gas_price \in 0..1
    /\ tasks = {}
    /\ profitable_opportunities = <<>>
    /\ bundle_to_execute = <<>>
    /\ members = <<>>
    /\ results = <<>>
    /\ ROUTE_STATS = <<>>
    /\ EXECUTED_OPPORTUNITIES = {}
    /\ spawned = 0
    /\ admissions = <<>>
    /\ in_order = TRUE
    /\ events = 0
    /\ lock_log = <<>>
    /\ refreshes = <<>>
    /\ sim = NoSim
    /\ eval = NoEval
    /\ stream = NoStream
    /\ held = {}
    /\ \E gas_limit \in GasLimits :
          search = [s |-> SearchStart, gas_limit |-> gas_limit, f1 |-> 0, f2 |-> 0,
                    trial |-> None]

\* let mut f1 = ..(x1); let mut f2 = ..(x2)
OptimizeFirstTrials(quote1, quote2) ==
    /\ pc = "optimize"
    /\ LET t1 == Trial(search.s.x1, quote1, base_gas_price, search.gas_limit)
           t2 == Trial(search.s.x2, quote2, base_gas_price, search.gas_limit)
       IN search' = [search EXCEPT !.f1 = t1.f, !.f2 = t2.f, !.trial = Some(t2)]
    /\ pc' = "optimize-loop"
    /\ UNCHANGED << pools, paths, last_refresh_block, block_number, base_gas_price, tasks,
                    profitable_opportunities, bundle_to_execute, members, results,
                    ROUTE_STATS, EXECUTED_OPPORTUNITIES, spawned, admissions, in_order,
                    events, lock_log, refreshes, sim, eval, stream, held >>

\* a pass of the loop: the bracket is narrowed towards the better trial, the
\* trial kept moves over and the new amount is valued
OptimizePass(quote) ==
    /\ pc = "optimize-loop"
    /\ SearchGoesOn(search.s)
    /\ LET s == Narrow(search.s, search.f1 > search.f2)
           t == Trial(IF search.f1 > search.f2 THEN s.x1 ELSE s.x2, quote,
                      base_gas_price, search.gas_limit)
       IN search' = IF search.f1 > search.f2
                    THEN [search EXCEPT !.s = s, !.f2 = search.f1, !.f1 = t.f,
                                        !.trial = Some(t)]
                    ELSE [search EXCEPT !.s = s, !.f1 = search.f2, !.f2 = t.f,
                                        !.trial = Some(t)]
    /\ UNCHANGED << pc, pools, paths, last_refresh_block, block_number, base_gas_price, tasks,
                    profitable_opportunities, bundle_to_execute, members, results,
                    ROUTE_STATS, EXECUTED_OPPORTUNITIES, spawned, admissions, in_order,
                    events, lock_log, refreshes, sim, eval, stream, held >>

\* gas_cost_usd_estimate, gross_profit_usd and bribe_usd of the opportunity
OpportunityBribeUsd(net_profit_usd, base_fee, gas_limit) ==
    BribeUsd(net_profit_usd + (base_fee * gas_limit) \div DEFAULT_GAS_LIMIT)

\* the loop is left: the midpoint of the bracket, the better of the two
\* trials, the threshold, the simulation of the midpoint, the opportunity
OptimizeEnds(quote) ==
    /\ pc = "optimize-loop"
    /\ ~SearchGoesOn(search.s)
    /\ LET optimal_amount == (search.s.a + search.s.b) \div 2
           net_profit_usd == Max(search.f1, search.f2)
           answer == QuoteAnswer(optimal_amount, quote)
           expected_output == IF answer = None THEN 0 ELSE answer[1]
           out == FinishEvaluation(ROUTE_STATS, paths[1], block_number, base_gas_price,
                                   net_profit_usd, expected_output)
       IN /\ search' = [search EXCEPT !.s.optimal_amount = optimal_amount]
          /\ ROUTE_STATS' = out.stats_map
          /\ eval' = [answer |-> IF out.opp = None THEN None ELSE answer,
                      opp |-> IF out.opp = None THEN None
                              ELSE Some([out.opp[1] EXCEPT
                                           !.optimal_amount_in = optimal_amount,
                                           !.bribe_usd = OpportunityBribeUsd(
                                               net_profit_usd, base_gas_price,
                                               search.gas_limit)])]
          /\ held' = HeldAtAwaits(OptimizerEvents(out.opp # None))
    /\ pc' = "optimized"
    /\ UNCHANGED << pools, paths, last_refresh_block, block_number, base_gas_price, tasks,
                    profitable_opportunities, bundle_to_execute, members, results,
                    EXECUTED_OPPORTUNITIES, spawned, admissions, in_order,
                    events, lock_log, refreshes, sim, stream >>

NextOptimize ==
    \/ \E quote1, quote2 \in Quotes : OptimizeFirstTrials(quote1, quote2)
    \/ \E quote \in Quotes : OptimizePass(quote)
    \/ \E quote \in Quotes : OptimizeEnds(quote)

SpecOptimize == InitOptimize /\ [][NextOptimize]_vars

(***************************************************************************)
(* provider.rs: estimate_gas on its own.  What the node answers to         *)
(* call.estimate_gas() is an error or an estimate; a node's estimate is at *)
(* most the gas limit of a block, far from the width of U256.              *)
(***************************************************************************)
EstimateErr == -1
EstimateAnswers == {EstimateErr} \cup (0..MaxGasEstimate)

\* variant: the estimate is returned as it is
GasBufferNone(gas) == gas

\* gas * 125 / 100
GasBuffer(gas) == (gas * 125) \div 100

\* variant: a fourth attempt is made
EstimateGoesOnFourth(attempts) == attempts < MAX_ESTIMATE_ATTEMPTS + 1

\* for attempt in 0..3
EstimateGoesOn(attempts) == attempts < MAX_ESTIMATE_ATTEMPTS

InitEstimate ==
    /\ pc = "estimate"
    /\ pools = <<>>
    /\ paths = <<>>
    /\ last_refresh_block = 0
    /\ block_number = 0
    /\ base_gas_price = 0
    /\ tasks = {}
    /\ profitable_opportunities = <<>>
    /\ bundle_to_execute = <<>>
    /\ members = <<>>
    /\ results = <<>>
    /\ ROUTE_STATS = <<>>
    /\ EXECUTED_OPPORTUNITIES = {}
    /\ spawned = 0
    /\ admissions = <<>>
    /\ in_order = TRUE
    /\ events = 0
    /\ lock_log = <<>>
    /\ refreshes = <<>>
    /\ \E gas_limit \in GasLimits :
          sim = [gas_limit |-> gas_limit, answers |-> <<>>, ret |-> None]
    /\ eval = NoEval
    /\ stream = NoStream
    /\ held = {}
    /\ search = NoSearch

\* an attempt: call.estimate_gas() answers; Ok returns the estimate with
\* its margin, Err sleeps and goes to the next attempt
EstimateAttempt(answer) ==
    /\ pc = "estimate"
    /\ EstimateGoesOn(Len(sim.answers))
    /\ IF answer # EstimateErr
       THEN /\ sim' = [sim EXCEPT !.answers = Append(sim.answers, answer),
                                  !.ret = Some([ok |-> TRUE, gas |-> GasBuffer(answer)])]
            /\ pc' = "estimated"
       ELSE /\ sim' = [sim EXCEPT !.answers = Append(sim.answers, answer)]
            /\ pc' = pc
    /\ UNCHANGED << pools, paths, last_refresh_block, block_number, base_gas_price, tasks,
                    profitable_opportunities, bundle_to_execute, members, results,
                    ROUTE_STATS, EXECUTED_OPPORTUNITIES, spawned, admissions, in_order,
                    events, lock_log, refreshes, eval, stream, held, search >>

\* the loop is over: Ok(U256::from(CONFIG.gas_limit))
EstimateFallback ==
    /\ pc = "estimate"
    /\ ~EstimateGoesOn(Len(sim.answers))
    /\ sim' = [sim EXCEPT !.ret = Some([ok |-> TRUE, gas |-> sim.gas_limit])]
    /\ pc' = "estimated"
    /\ UNCHANGED << pools, paths, last_refresh_block, block_number, base_gas_price, tasks,
                    profitable_opportunities, bundle_to_execute, members, results,
                    ROUTE_STATS, EXECUTED_OPPORTUNITIES, spawned, admissions, in_order,
                    events, lock_log, refreshes, eval, stream, held, search >>

NextEstimate ==
    \/ \E answer \in EstimateAnswers : EstimateAttempt(answer)
    \/ EstimateFallback

SpecEstimate == InitEstimate /\ [][NextEstimate]_vars

(***************************************************************************)
(* utils.rs: calculate_next_block_base_fee on its own.  The subtraction    *)
(* and the division of U256 panic on underflow and on a zero divisor.      *)
(***************************************************************************)
\* the call panics
Panic == [panic |-> TRUE]
\* the call returns a value
Returns(value) == [panic |-> FALSE, value |-> value]

calculate_next_block_base_fee(gas_used, gas_limit, base_fee) ==
    LET gas_target == gas_limit \div 2
    IN IF gas_used = gas_target THEN Returns(base_fee)
       ELSE IF gas_used < gas_target THEN Panic
       ELSE IF gas_target = 0 THEN Panic
       ELSE LET base_fee_delta ==
                    ((base_fee * (gas_used - gas_target)) \div gas_target) \div 8
            IN Returns(base_fee + base_fee_delta)

InitBaseFee ==
    /\ pc = "base-fee"
    /\ pools = <<>>
    /\ paths = <<>>
    /\ last_refresh_block = 0
    /\ block_number = 0
    /\ base_gas_price = 0
    /\ tasks = {}
    /\ profitable_opportunities = <<>>
    /\ bundle_to_execute = <<>>
    /\ members = <<>>
    /\ results = <<>>
    /\ ROUTE_STATS = <<>>
    /\ EXECUTED_OPPORTUNITIES = {}
    /\ spawned = 0
    /\ admissions = <<>>
    /\ in_order = TRUE
    /\ events = 0
    /\ lock_log = <<>>
    /\ refreshes = <<>>
    /\ \E gas_used \in 0..MaxGas, gas_limit \in 0..MaxGas, base_fee \in 0..MaxBaseFee :
          sim = [gas_used |-> gas_used, gas_limit |-> gas_limit, base_fee |-> base_fee,
                 ret |-> None]
    /\ eval = NoEval
    /\ stream = NoStream
    /\ held = {}
    /\ search = NoSearch

\* the call
NextBlockBaseFee ==
    /\ pc = "base-fee"
    /\ sim' = [sim EXCEPT !.ret = Some(calculate_next_block_base_fee(
                                          sim.gas_used, sim.gas_limit, sim.base_fee))]
    /\ pc' = "base-fee-done"
    /\ UNCHANGED << pools, paths, last_refresh_block, block_number, base_gas_price, tasks,
                    profitable_opportunities, bundle_to_execute, members, results,
                    ROUTE_STATS, EXECUTED_OPPORTUNITIES, spawned, admissions, in_order,
                    events, lock_log, refreshes, eval, stream, held, search >>

NextBaseFee == NextBlockBaseFee

SpecBaseFee == InitBaseFee /\ [][NextBaseFee]_vars

(***************************************************************************)
(* generate_triangular_paths called on its own, with any pool list.        *)
(***************************************************************************)
\* the pools a caller can hand over: pools of the triangle A-B-C, a second
\* pool of the pair A-B with its tokens the other way round, pools whose two
\* tokens are the same (Pool::from reads an unreadable token column as the
\* zero address, pools.rs:67-68), a pool under the TVL floor and a pool into
\* a token without a feed
InputPools ==
    { Pool("p1", "A", "B", 900000, 500),
      Pool("p2", "B", "C", 800000, 500),
      Pool("p3", "C", "A", 700000, 3000),
      Pool("p4", "A", "A", 600000, 500),
      Pool("p5", "B", "B", 500000, 500),
      Pool("p7", "A", "B", 40000, 500),
      Pool("p8", "A", "F", 600000, 500),
      Pool("p9", "B", "A", 950000, 3000) }

\* the lists of n pools
RECURSIVE PoolLists(_)
PoolLists(n) ==
    IF n = 0 THEN {<<>>}
    ELSE {Append(l, p) : l \in PoolLists(n - 1), p \in InputPools}

\* pool addresses of the catalog below
TieAddrs ==
    <<
       "t01", "t02", "t03", "t04", "t05", "t06", "t07", "t08", "t09",
       "t10", "t11", "t12", "t13", "t14", "t15", "t16", "t17", "t18",
       "t19", "t20", "t21", "t22", "t23", "t24", "t25", "t26", "t27",
       "t28", "t29", "t30", "t31", "t32", "t33", "t34", "t35", "t36",
       "t37", "t38", "t39", "t40", "t41", "t42", "t43", "t44", "t45",
       "t46", "t47", "t48", "t49", "t50", "t51", "t52", "t53", "t54",
       "t55", "t56", "t57", "t58", "t59", "t60", "t61", "t62", "t63",
       "t64", "t65", "t66", "t67", "t68", "t69", "t70", "t71", "t72",
       "t73", "t74", "t75", "t76", "t77" >>

\* one pool more than the cap on the pair A-B, all with the same TVL, and
\* the two pools that close the triangle A-B-C, with a higher TVL
TieCatalog ==
    [i \in 1..(MAX_POOLS_PER_TOKEN + 1) |-> Pool(TieAddrs[i], "A", "B", 100000, 500)]
        \o << Pool("tbc", "B", "C", 900000, 500), Pool("tca", "C", "A", 900000, 500) >>

InputPoolLists == UNION {PoolLists(n) : n \in 0..MaxPools} \cup {TieCatalog}

\* the pools of a list supplied in the opposite order
Reverse(s) == [i \in 1..Len(s) |-> s[Len(s) + 1 - i]]

\* Init, with the loop not started and any pool list loaded
InitGenerate ==
    /\ pc = "paths"
    /\ pools \in InputPoolLists
    /\ paths = <<>>
    /\ last_refresh_block = 0
    /\ block_number = 0
    /\ base_gas_price = 0
    /\ tasks = {}
    /\ profitable_opportunities = <<>>
    /\ bundle_to_execute = <<>>
    /\ members = <<>>
    /\ results = <<>>
    /\ ROUTE_STATS = <<>>
    /\ EXECUTED_OPPORTUNITIES = {}
    /\ spawned = 0
    /\ admissions = <<>>
    /\ in_order = TRUE
    /\ events = 0
    /\ lock_log = <<>>
    /\ refreshes = <<>>
    /\ sim = NoSim
    /\ eval = NoEval
    /\ stream = NoStream
    /\ held = {}
    /\ search = NoSearch

\* the call generate_triangular_paths(&pools, CONFIG.token_in_address, ..)
GeneratePaths ==
    /\ pc = "paths"
    /\ paths' = generate_triangular_paths(pools, token_in_address)
    /\ pc' = "generated"
    /\ UNCHANGED << pools, last_refresh_block, block_number, base_gas_price, tasks,
                    profitable_opportunities, bundle_to_execute, members, results,
                    ROUTE_STATS, EXECUTED_OPPORTUNITIES, spawned, admissions, in_order,
                    events, lock_log, refreshes, sim, eval, stream, held, search >>

NextGenerate == GeneratePaths

SpecGenerate == InitGenerate /\ [][NextGenerate]_vars

(***************************************************************************)
(* Properties.                                                             *)
(***************************************************************************)
\* the three pool addresses of an opportunity's route
OppPools(opp) ==
    {opp.path.pool_1.address, opp.path.pool_2.address, opp.path.pool_3.address}

SharePool(a, b) == OppPools(a) \cap OppPools(b) # {}

Candidates == Range(profitable_opportunities)

InBundle(opp) ==
    \E i \in DOMAIN bundle_to_execute : key(bundle_to_execute[i].path) = key(opp.path)

\* C1: in every bundle handed to execution, the pool addresses of any two
\* distinct members are disjoint.
C1_PoolDisjointBundle ==
    \A i, j \in DOMAIN bundle_to_execute :
        i # j => OppPools(bundle_to_execute[i]) \cap OppPools(bundle_to_execute[j]) = {}

\* C1 witness: a bundle of two members is being executed while a candidate
\* sharing a pool with one of them was left out.
C1_Witness ==
    /\ pc = "exec"
    /\ Len(bundle_to_execute) >= 2
    /\ \E c \in Candidates :
          /\ ~InBundle(c)
          /\ \E i \in DOMAIN bundle_to_execute : SharePool(c, bundle_to_execute[i])

\* C2: while the blocks arrive in non-decreasing order, no (block number,
\* route key) pair is admitted to a bundle more than once.
C2_AdmittedOncePerBlock ==
    in_order =>
        \A i, j \in DOMAIN admissions : i # j => admissions[i] # admissions[j]

\* C2 witness: a block number arrives a second time and a route admitted at
\* its first arrival is a candidate again, and is left out of the bundle.
C2_Witness ==
    /\ pc = "exec"
    /\ in_order
    /\ events = 2
    /\ \E c \in Candidates :
          /\ ~InBundle(c)
          /\ \E i \in DOMAIN admissions : admissions[i] = <<block_number, key(c.path)>>

\* block n lies in the cooldown window of the route's recorded history
InsideWindow(path, n) ==
    /\ key(path) \in DOMAIN ROUTE_STATS
    /\ ROUTE_STATS[key(path)].last_failure_block <= n
    /\ n <= ROUTE_STATS[key(path)].last_failure_block + ROUTE_FAILURE_COOLDOWN_BLOCKS - 1

\* the history entry of the route was created by this block's evaluation
FreshEntry(path, n) ==
    /\ key(path) \in DOMAIN ROUTE_STATS
    /\ ROUTE_STATS[key(path)] = [DefaultHistory EXCEPT !.last_attempt_block = n]

\* when the evaluations of block n are spawned, a route whose recorded
\* last_failure_block is B gets no task if B <= n <= B + 9 and gets one if
\* n = B + 10
SpawnRespectsWindow ==
    (pc = "recv" /\ pc' = "eval") =>
        \A i \in DOMAIN paths' :
            LET n == block_number'
                has_task == \E t \in tasks' : t.idx = i /\ t.block = n
            IN /\ InsideWindow(paths'[i], n) => ~has_task
               /\ (/\ key(paths'[i]) \in DOMAIN ROUTE_STATS
                   /\ n = ROUTE_STATS[key(paths'[i])].last_failure_block
                              + ROUTE_FAILURE_COOLDOWN_BLOCKS) => has_task

AttemptsWellFormed(m) ==
    /\ Len(m.sent) <= 3
    /\ \A j \in 1..(Len(m.sent) - 1) : ~m.sent[j].accepted
    /\ m.st = "ok" <=> (Len(m.sent) >= 1 /\ m.sent[Len(m.sent)].accepted)

\* C4 as stated: at most 3 attempts, the first accepted one ends the call,
\* and an error is returned only after the third consecutive failure.
C4_ErrorOnlyAfterThirdFailure ==
    \A i \in DOMAIN members :
        /\ AttemptsWellFormed(members[i])
        /\ members[i].st = "err" =>
               /\ Len(members[i].sent) = 3
               /\ \A j \in 1..3 : ~members[i].sent[j].accepted

\* C4 amended: at most 3 attempts, the first accepted one ends the call, and
\* an error is returned either before any attempt or after the third
\* consecutive failure, never after one or two attempts.
C4_AttemptsBounded ==
    \A i \in DOMAIN members :
        /\ AttemptsWellFormed(members[i])
        /\ members[i].st = "err" =>
               \/ Len(members[i].sent) = 0
               \/ /\ Len(members[i].sent) = 3
                  /\ \A j \in 1..3 : ~members[i].sent[j].accepted

\* C4 witness: a call has returned an error after three rejected attempts.
C4_Witness ==
    \E i \in DOMAIN members :
        /\ members[i].st = "err"
        /\ Len(members[i].sent) = 3

\* C5: when execute_arbitrage_bundle returns, the result list holds exactly
\* one result for every bundle member, tagged with its route key.
C5_OneResultPerMember ==
    (pc = "exec" /\ \A i \in DOMAIN members : members[i].st \notin {"spawned", "sending"}) =>
        /\ Len(results) = Len(bundle_to_execute)
        /\ \A i \in DOMAIN bundle_to_execute :
               Cardinality({j \in DOMAIN results :
                               results[j].path_key = key(bundle_to_execute[i].path)}) = 1

\* C6: recording a result changes the history of its route only: a success
\* adds 1 to successes and leaves failures and last_failure_block, a failure
\* adds 1 to failures and sets last_failure_block to the block in progress.
C6_RecordFrame ==
    [][(pc = "record" /\ results # <<>> /\ results' = Tail(results)) =>
           LET r == Head(results)
               known == r.path_key \in DOMAIN ROUTE_STATS
               old_successes == IF known THEN ROUTE_STATS[r.path_key].successes ELSE 0
               old_failures == IF known THEN ROUTE_STATS[r.path_key].failures ELSE 0
               old_block == IF known THEN ROUTE_STATS[r.path_key].last_failure_block ELSE 0
               new == ROUTE_STATS'[r.path_key]
           IN /\ DOMAIN ROUTE_STATS' = DOMAIN ROUTE_STATS \cup {r.path_key}
              /\ \A k \in DOMAIN ROUTE_STATS \ {r.path_key} : ROUTE_STATS'[k] = ROUTE_STATS[k]
              /\ r.ok => /\ new.successes = old_successes + 1
                         /\ new.failures = old_failures
                         /\ new.last_failure_block = old_block
              /\ ~r.ok => /\ new.failures = old_failures + 1
                          /\ new.successes = old_successes
                          /\ new.last_failure_block = block_number
                          /\ \E i \in DOMAIN members :
                                 /\ key(members[i].opp.path) = r.path_key
                                 /\ members[i].block = new.last_failure_block
      ]_vars

\* C6 witness: the failure of a member that made no submission attempt has
\* been recorded at the block in progress.
C6_Witness ==
    /\ pc = "record"
    /\ results = <<>>
    /\ \E i \in DOMAIN members :
          /\ members[i].st = "err"
          /\ Len(members[i].sent) = 0
          /\ key(members[i].opp.path) \in DOMAIN ROUTE_STATS
          /\ ROUTE_STATS[key(members[i].opp.path)].failures >= 1
          /\ ROUTE_STATS[key(members[i].opp.path)].last_failure_block = block_number

\* C7: a call of lock_opportunity returns true exactly when no earlier call
\* had the same block number and the same route.
C7_LockOncePerPair ==
    \A j \in DOMAIN lock_log :
        lock_log[j].ret =
            ~(\E i \in 1..(j - 1) :
                  /\ lock_log[i].block = lock_log[j].block
                  /\ lock_log[i].path = lock_log[j].path)

\* C7 witness: a pair is locked, locked again and refused, and the same
\* route is locked at another block.
C7_Witness ==
    /\ Len(lock_log) = 3
    /\ lock_log[1].path = lock_log[2].path
    /\ lock_log[1].block = lock_log[2].block
    /\ lock_log[3].path = lock_log[1].path
    /\ lock_log[3].block # lock_log[1].block
    /\ lock_log[1].ret
    /\ ~lock_log[2].ret
    /\ lock_log[3].ret

\* C8 as stated: of two candidates of a block that share a pool, the
\* lower-scored is not in the bundle.
C8_LowerScoredExcluded ==
    pc = "exec" =>
        \A a, b \in Candidates :
            (SharePool(a, b) /\ a.score < b.score) => ~InBundle(a)

\* C8 amended: of two candidates of a block that share a pool, the
\* lower-scored is in the bundle only if the higher-scored is not, and was
\* left out because its lock for the block was taken already or because it
\* shares a pool with a member scored at least as high.
C8_LowerScoredOnlyIfHigherBlocked ==
    pc = "exec" =>
        \A a, b \in Candidates :
            (SharePool(a, b) /\ a.score < b.score /\ InBundle(a)) =>
                /\ ~InBundle(b)
                /\ \/ FormatU64(block_number) \o <<"-">> \o key(b.path)
                          \in EXECUTED_OPPORTUNITIES
                   \/ \E i \in DOMAIN bundle_to_execute :
                          /\ SharePool(bundle_to_execute[i], b)
                          /\ bundle_to_execute[i].score >= b.score

\* C8 witness: two candidates with different scores share a pool and the
\* higher-scored one is in the bundle.
C8_Witness ==
    /\ pc = "exec"
    /\ \E a, b \in Candidates :
          /\ SharePool(a, b)
          /\ a.score < b.score
          /\ InBundle(b)
          /\ ~InBundle(a)

\* C9: the loop leaves the evaluation phase, takes a lock, builds a bundle
\* or runs a member only when no evaluation task of the block is in flight.
C9_EvaluationsJoinedFirst ==
    [][(\/ pc = "eval" /\ pc' # "eval"
        \/ EXECUTED_OPPORTUNITIES' # EXECUTED_OPPORTUNITIES
        \/ bundle_to_execute' # bundle_to_execute
        \/ members' # members
        \/ results' # results) => tasks = {}
      ]_vars

\* C9 witness: four tasks were spawned for the block, some ended without an
\* opportunity, and the bundle is being executed.
C9_Witness ==
    /\ pc = "exec"
    /\ events = 1
    /\ spawned = 4
    /\ tasks = {}
    /\ Len(profitable_opportunities) \in 1..3

\* C10: evaluation tasks and running members belong to the block in
\* progress; members run only during the execution phase; while evaluation
\* tasks are in flight no member exists and no result is left unrecorded.
C10_NotPipelined ==
    /\ \A t \in tasks : t.block = block_number
    /\ \A i \in DOMAIN members :
           members[i].st \in {"spawned", "sending"} =>
               (pc = "exec" /\ members[i].block = block_number)
    /\ tasks # {} => (pc = "eval" /\ results = <<>> /\ members = <<>>)

\* C10 witness: the routes of a second block are being evaluated after the
\* results of the first were recorded.
C10_Witness ==
    /\ events = 2
    /\ tasks # {}
    /\ \E k \in DOMAIN ROUTE_STATS :
           ROUTE_STATS[k].successes + ROUTE_STATS[k].failures >= 1

\* C11: once the block loop is running, no error that arises while a block
\* is processed ends the event loop.
C11_LoopNeverStops == pc # "stopped"

\* C12: a failed execution does not interrupt the block loop: while results
\* are left the loop records the next one, whatever the outcome of the one
\* before, and when none is left it goes back to wait for a block event; it
\* never stalls in between.
C12_FailureDoesNotInterrupt ==
    /\ [][pc = "record" =>
              /\ results # <<>> =>
                     /\ pc' = "record"
                     /\ results' = Tail(results)
                     /\ Head(results).path_key \in DOMAIN ROUTE_STATS'
                     /\ ROUTE_STATS' # ROUTE_STATS
              /\ results = <<>> => pc' = "recv"
         ]_vars
    /\ [](pc = "record" => ENABLED (RecordResult \/ FinishBlock))

\* C12 witness: the failure of a bundle member has been recorded and the
\* result of another member is still to be recorded.
C12_Witness ==
    /\ pc = "record"
    /\ results # <<>>
    /\ \E i \in DOMAIN members :
          /\ members[i].st = "err"
          /\ \A j \in DOMAIN results : results[j].path_key # key(members[i].opp.path)
          /\ key(members[i].opp.path) \in DOMAIN ROUTE_STATS
          /\ ROUTE_STATS[key(members[i].opp.path)].failures >= 1
          /\ ROUTE_STATS[key(members[i].opp.path)].last_failure_block = block_number

\* C13: the refresh is performed at most once per path_refresh_interval_blocks
\* blocks: any two refreshes of the event loop, at block numbers r1 then r2,
\* have r2 - r1 >= path_refresh_interval_blocks.
C13_RefreshInterval ==
    \A i, j \in DOMAIN refreshes :
        i < j => refreshes[j] - refreshes[i] >= path_refresh_interval_blocks

\* the two tokens of a pool
PoolTokens(pool) == {pool.token0, pool.token1}

\* C14: every route generate_triangular_paths returns has three pairwise
\* distinct pool addresses, consecutive pools that share exactly one token,
\* token_c # token_b # start token, and a third pool whose other token is the
\* start token.
C14_RoutesWellFormed ==
    pc = "generated" =>
        \A i \in DOMAIN paths :
            LET r == paths[i]
            IN /\ r.pool_1.address # r.pool_2.address
               /\ r.pool_1.address # r.pool_3.address
               /\ r.pool_2.address # r.pool_3.address
               /\ Cardinality(PoolTokens(r.pool_1) \cap PoolTokens(r.pool_2)) = 1
               /\ Cardinality(PoolTokens(r.pool_2) \cap PoolTokens(r.pool_3)) = 1
               /\ r.token_a = token_in_address
               /\ r.token_b # r.token_a
               /\ r.token_c # r.token_b
               /\ r.token_c # r.token_a
               /\ PoolTokens(r.pool_3) = {r.token_c, r.token_a}

\* C15: simulate_v3_path quotes hop 1 for amount_in and every later hop for
\* the output of the hop before, with inputs token_a, token_b, token_c in that
\* order; it quotes no hop after a failed quote or after a zero output of hop 1
\* or hop 2 and returns None in these cases; otherwise it returns the quote of
\* hop 3.
C15_SimulateAllOrNothing ==
    pc = "simulated" =>
        LET calls == sim.out.calls
            n == Len(calls)
            hop_pool == <<sim.path.pool_1, sim.path.pool_2, sim.path.pool_3>>
            hop_in == <<sim.path.token_a, sim.path.token_b, sim.path.token_c>>
            stopped == \/ calls[n].answer = -1
                       \/ n < 3 /\ calls[n].answer = 0
        IN /\ n \in 1..3
           /\ calls[1].amount_in = sim.amount_in
           /\ \A k \in 2..n : calls[k].amount_in = calls[k - 1].answer
           /\ \A k \in 1..n : /\ calls[k].pool = hop_pool[k].address
                              /\ calls[k].fee = hop_pool[k].fee
                              /\ calls[k].token_in = hop_in[k]
                              /\ calls[k].token_out # hop_in[k]
                              /\ {calls[k].token_in, calls[k].token_out}
                                     = {hop_pool[k].token0, hop_pool[k].token1}
           /\ \A k \in 1..(n - 1) : calls[k].answer > 0
           /\ n < 3 => stopped
           /\ stopped => sim.out.result = <<>>
           /\ ~stopped => sim.out.result = <<calls[3].answer>>

\* C15 witness: hop 2 answered zero for the output of hop 1, hop 3 was not
\* quoted and the result is None.
C15_Witness ==
    /\ pc = "simulated"
    /\ Len(sim.out.calls) = 2
    /\ sim.out.calls[1].answer > 0
    /\ sim.out.calls[2].answer = 0
    /\ sim.out.result = <<>>

\* C16: when the oracle has no price for the start token (no answer, or an
\* answer that is not above zero) the evaluation yields None: every
\* opportunity produced was priced with an oracle price above zero.
C16_NoPriceNoOpportunity ==
    pc = "evaluated" =>
        /\ (eval.oracle_info = <<>> \/ eval.oracle_info[1] <= 0) => eval.opp = <<>>
        /\ eval.opp # <<>> =>
               /\ eval.oracle_info # <<>>
               /\ eval.oracle_info[1] > 0
               /\ eval.opp[1].path = eval.path
               /\ eval.opp[1].net_profit_usd > 0

\* C16 witness: the oracle answered a price of zero, the simulation found a
\* gain, and the evaluation yielded None.
C16_Witness ==
    /\ pc = "evaluated"
    /\ eval.spot_ok
    /\ eval.oracle_info = <<0>>
    /\ eval.eth_price > 0
    /\ eval.gain > 0
    /\ eval.opp = <<>>

\* C17: every opportunity find_best_trade_golden_section returns has
\* net_profit_usd above the minimum-profit threshold; when the function
\* returns None the route history is as it was.
C17_AboveThreshold ==
    pc = "evaluated" =>
        /\ eval.opp # <<>> => eval.opp[1].net_profit_usd > min_profit_usd
        /\ eval.opp = <<>> => ROUTE_STATS = eval.stats_before
        /\ (/\ eval.spot_ok
            /\ eval.oracle_info # <<>>
            /\ eval.eth_price > 0
            /\ (eval.oracle_info[1] <= 0 \/ eval.gain <= min_profit_usd)) => eval.opp = <<>>

\* C17 witness: the search ran with prices above zero, its best profit was
\* the threshold itself, and None was returned.
C17_Witness ==
    /\ pc = "evaluated"
    /\ eval.spot_ok
    /\ eval.oracle_info # <<>>
    /\ eval.oracle_info[1] > 0
    /\ eval.eth_price > 0
    /\ eval.gain = min_profit_usd
    /\ eval.opp = <<>>
    /\ ROUTE_STATS = eval.stats_before

\* C18: on each retry the priority fee offered is one and a half times the
\* priority fee of the attempt before, in whole gwei, and max_fee_per_gas of
\* every attempt is the block base fee plus that attempt's priority fee.
C18_FeeEscalation ==
    \A i \in DOMAIN members :
        LET sent == members[i].sent
        IN /\ \A k \in DOMAIN sent :
                  sent[k].max_fee_per_gas = base_gas_price + sent[k].priority_fee
           /\ \A k \in DOMAIN sent :
                  k > 1 => sent[k].priority_fee = (3 * sent[k - 1].priority_fee) \div 2

\* C18 witness: a member was sent three times, each time with a higher
\* priority fee, over a base fee above zero.
C18_Witness ==
    \E i \in DOMAIN members :
        /\ Len(members[i].sent) = MAX_SEND_ATTEMPTS
        /\ base_gas_price > 0
        /\ members[i].sent[1].priority_fee < members[i].sent[2].priority_fee
        /\ members[i].sent[2].priority_fee < members[i].sent[3].priority_fee

\* the positions of a step in the steps of a member
StepsAt(m, step) == {k \in DOMAIN m.steps : m.steps[k] = step}

\* C19: an opportunity with optimal_amount_in = 0 or expected_output <=
\* optimal_amount_in ends in an error before encoding, gas estimation or any
\* submission; validation precedes gas estimation, which precedes the first
\* submission.
C19_ValidationFirst ==
    \A i \in DOMAIN members :
        LET m == members[i]
        IN /\ (InvalidAmounts(m.opp) /\ m.steps # <<>>) =>
                  /\ m.st = "err"
                  /\ m.steps = <<"validate">>
                  /\ m.sent = <<>>
           /\ InvalidAmounts(m.opp) => m.st \in {"spawned", "err", "aborted"}
           /\ \A g \in StepsAt(m, "estimate_gas") \cup StepsAt(m, "encode") :
                  \E v \in StepsAt(m, "validate") : v < g
           /\ \A x \in StepsAt(m, "send") :
                  \E g \in StepsAt(m, "estimate_gas") : g < x
           /\ Len(m.sent) = Cardinality(StepsAt(m, "send"))

\* C19 witness: a member whose expected output does not exceed its amount
\* in, above zero, has ended in an error.
C19_Witness ==
    \E i \in DOMAIN members :
        /\ members[i].opp.optimal_amount_in > 0
        /\ members[i].opp.expected_output <= members[i].opp.optimal_amount_in
        /\ members[i].st = "err"
        /\ \E k \in DOMAIN results : ~results[k].ok

\* the lock keys of the members of a bundle at a block
BundleLocks(bundle, block) == {LockKey(block, bundle[i].path) : i \in DOMAIN bundle}

\* C20: the bundle selected for a block never holds more than
\* OPPORTUNITY_BUNDLE_SIZE opportunities, and the locks a selection takes are
\* those of the members of its bundle: none is taken for a candidate once
\* the bundle is full.
C20_BundleSizeBound ==
    /\ [](Len(bundle_to_execute) <= OPPORTUNITY_BUNDLE_SIZE)
    /\ [][(pc = "eval" /\ pc' # "eval") =>
              /\ Len(bundle_to_execute') <= OPPORTUNITY_BUNDLE_SIZE
              /\ EXECUTED_OPPORTUNITIES' \ EXECUTED_OPPORTUNITIES
                     = BundleLocks(bundle_to_execute', block_number)
              /\ Cardinality(EXECUTED_OPPORTUNITIES' \ EXECUTED_OPPORTUNITIES)
                     <= OPPORTUNITY_BUNDLE_SIZE]_vars

\* C20 witness: the bundle is full and a candidate that shares no pool with
\* it, and was free to lock, was left out without a lock.
C20_Witness ==
    /\ pc = "exec"
    /\ Len(bundle_to_execute) = OPPORTUNITY_BUNDLE_SIZE
    /\ \E k \in DOMAIN profitable_opportunities :
           LET opp == profitable_opportunities[k]
           IN /\ \A i \in DOMAIN bundle_to_execute :
                     PathPools(opp.path) \cap PathPools(bundle_to_execute[i].path) = {}
              /\ LockKey(block_number, opp.path) \notin EXECUTED_OPPORTUNITIES

\* C21: once the termination signal is handled every task in flight is
\* aborted: nothing is submitted and the shared state (route history, lock
\* set) is not written any more.
C21_NothingAfterSignal ==
    [][pc = "aborted" =>
          /\ ROUTE_STATS' = ROUTE_STATS
          /\ EXECUTED_OPPORTUNITIES' = EXECUTED_OPPORTUNITIES
          /\ \A i \in DOMAIN members : members'[i].sent = members[i].sent]_vars

\* C22: the listener is never stopped by its consumers: whether the
\* strategy loop is subscribed or not, the listener goes on to the next
\* header as long as the node delivers one.
C22_ListenerNeverStopped == stream.listener = "running"

\* C23: generate_triangular_paths returns the same set of routes for the
\* same pools whatever the order they are supplied in, and modifies no
\* shared state.
C23_OrderIndependent ==
    pc = "generated" =>
        /\ Range(paths) = Range(generate_triangular_paths(Reverse(pools), token_in_address))
        /\ ROUTE_STATS = <<>>
        /\ EXECUTED_OPPORTUNITIES = {}

\* C24: the winrate of a route history is successes / (successes +
\* failures) once an outcome is recorded, one half while none is (the entry
\* the optimizer creates included), and always lies between 0 and 1.  The
\* winrate is in percent, rounded down.
C24_Winrate ==
    \A k \in DOMAIN ROUTE_STATS :
        LET h == ROUTE_STATS[k]
            total == h.successes + h.failures
        IN /\ total = 0 => winrate(h) = 50
           /\ total > 0 => /\ winrate(h) * total <= 100 * h.successes
                           /\ 100 * h.successes < (winrate(h) + 1) * total
           /\ winrate(h) >= 0
           /\ winrate(h) <= 100

\* C24 witness: one route has an entry made by the optimizer and no outcome
\* yet, another has a success and a failure recorded.
C24_Witness ==
    /\ \E k \in DOMAIN ROUTE_STATS :
           /\ ROUTE_STATS[k].successes + ROUTE_STATS[k].failures = 0
           /\ ROUTE_STATS[k].last_attempt_block > 0
    /\ \E k \in DOMAIN ROUTE_STATS :
           /\ ROUTE_STATS[k].successes > 0
           /\ ROUTE_STATS[k].failures > 0

\* C25: the bundle is what a greedy walk over the candidates in descending
\* score order gives.  Its members are candidates, in descending score
\* order, each with a lock newly taken at the block; a candidate is left
\* out only if the bundle was full before it, or it shares a pool with a
\* member that scores at least as high, or its lock was taken already; a
\* candidate left out gets no lock.
C25_GreedyWalk ==
    [][(pc = "eval" /\ pc' # "eval") =>
          LET cands == profitable_opportunities
              bundle == bundle_to_execute'
              LockOf(opp) == LockKey(block_number, opp.path)
              Member(i) == \E m \in DOMAIN bundle : bundle[m].path = cands[i].path
          IN /\ \A m \in DOMAIN bundle :
                    /\ \E i \in DOMAIN cands : cands[i].path = bundle[m].path
                    /\ LockOf(bundle[m]) \notin EXECUTED_OPPORTUNITIES
                    /\ LockOf(bundle[m]) \in EXECUTED_OPPORTUNITIES'
                    /\ \A n \in DOMAIN bundle : m < n => bundle[m].score >= bundle[n].score
             /\ \A i \in DOMAIN cands :
                    ~Member(i) =>
                        /\ \/ /\ Len(bundle) = OPPORTUNITY_BUNDLE_SIZE
                              /\ \A m \in DOMAIN bundle : bundle[m].score >= cands[i].score
                           \/ \E m \in DOMAIN bundle :
                                  /\ PathPools(bundle[m].path) \cap PathPools(cands[i].path) # {}
                                  /\ bundle[m].score >= cands[i].score
                           \/ LockOf(cands[i]) \in EXECUTED_OPPORTUNITIES
                        /\ LockOf(cands[i]) \in EXECUTED_OPPORTUNITIES'
                               => LockOf(cands[i]) \in EXECUTED_OPPORTUNITIES]_vars

\* C25 witness: the bundle is not full, and a candidate that shares a pool
\* with a member of a higher score was left out and has no lock.
C25_Witness ==
    /\ pc = "exec"
    /\ Len(bundle_to_execute) >= 2
    /\ Len(bundle_to_execute) < OPPORTUNITY_BUNDLE_SIZE
    /\ \E i \in DOMAIN profitable_opportunities, m \in DOMAIN bundle_to_execute :
           /\ PathPools(bundle_to_execute[m].path)
                  \cap PathPools(profitable_opportunities[i].path) # {}
           /\ bundle_to_execute[m].path # profitable_opportunities[i].path
           /\ bundle_to_execute[m].score > profitable_opportunities[i].score
           /\ LockKey(block_number, profitable_opportunities[i].path)
                  \notin EXECUTED_OPPORTUNITIES

\* the pools above the TVL floor that hold a token and are among its
\* MAX_POOLS_PER_TOKEN pools of highest TVL
TopPools(ps, token) ==
    LET holding == {p \in Range(ps) :
                       /\ p.tvl_usd >= MIN_TVL_USD
                       /\ (p.token0 = token \/ p.token1 = token)}
    IN {p \in holding :
           Cardinality({q \in holding : q.tvl_usd > p.tvl_usd}) < MAX_POOLS_PER_TOKEN}

\* the pools of TopPools(ps, token_c) that join token_c to the start token
ClosingPools(ps, token_c, token_in) ==
    {p \in TopPools(ps, token_c) :
        \/ p.token0 = token_c /\ p.token1 = token_in
        \/ p.token1 = token_c /\ p.token0 = token_in}

\* the triples the routes are to be
ExpectedRoutes(ps, token_in) ==
    UNION {
      UNION {
        { ArbPath(ab, bc, ca, token_in, OtherToken(ab, token_in),
                  OtherToken(bc, OtherToken(ab, token_in))) :
            ca \in {p \in ClosingPools(ps, OtherToken(bc, OtherToken(ab, token_in)), token_in) :
                       p.address # ab.address /\ p.address # bc.address} } :
        bc \in {p \in TopPools(ps, OtherToken(ab, token_in)) :
                   /\ p.address # ab.address
                   /\ OtherToken(p, OtherToken(ab, token_in)) # token_in
                   /\ get_feeds(OtherToken(p, OtherToken(ab, token_in)))} } :
      ab \in {p \in TopPools(ps, token_in) : get_feeds(OtherToken(p, token_in))} }

\* C26: generate_triangular_paths returns, each exactly once, exactly the
\* triples of pairwise distinct pools above the TVL floor, each among the
\* top pools of its token, that go from the start token through token_b
\* and token_c back to the start token, with token_c not the start token
\* and feeds for token_b and token_c.
C26_ExactRoutes ==
    pc = "generated" =>
        /\ \A i, j \in DOMAIN paths : i # j => paths[i] # paths[j]
        /\ Range(paths) = ExpectedRoutes(pools, token_in_address)

\* C29: the route list holds no two routes with the same ordered triple of
\* pool addresses, so a block spawns at most one evaluation task per route
\* key.
C29_RouteKeysDistinct ==
    pc = "generated" =>
        \A i, j \in DOMAIN paths : i # j => key(paths[i]) # key(paths[j])

\* the block number a lock key starts with
LockBlock(k) == ParseU64(FirstSegment(k))

\* C27: right after a refresh at block c the lock set holds no entry taken
\* more than 10 blocks before c, every entry taken within 10 blocks of c or
\* later is still there, and no entry was added.
C27_LocksPruned ==
    [][refreshes' # refreshes =>
          LET c == block_number'
          IN /\ EXECUTED_OPPORTUNITIES' \subseteq EXECUTED_OPPORTUNITIES
             /\ \A k \in EXECUTED_OPPORTUNITIES :
                    /\ LockBlock(k) >= 0
                    /\ LockBlock(k) + 10 >= c => k \in EXECUTED_OPPORTUNITIES'
                    /\ LockBlock(k) + 10 < c => k \notin EXECUTED_OPPORTUNITIES']_vars

\* C27 witness: a refresh has just been made at a block more than 10 blocks
\* after an admission, and the lock of that admission is gone.
C27_Witness ==
    /\ pc = "eval"
    /\ refreshes # <<>>
    /\ refreshes[Len(refreshes)] = block_number
    /\ bundle_to_execute = <<>>
    /\ \E i \in DOMAIN admissions :
           /\ admissions[i][1] + 10 < block_number
           /\ (FormatU64(admissions[i][1]) \o <<"-">> \o admissions[i][2])
                  \notin EXECUTED_OPPORTUNITIES

\* C28: no task holds the route-history mutex or the lock-set mutex at a
\* suspension point: in the event loop, in the optimizer and in the lock
\* functions every guard is dropped before the next await.
C28_NoMutexAcrossAwait == held = {}

\* C28 witness: an evaluation has passed the threshold, written its entry
\* of the route history under the mutex, and holds nothing.
C28_Witness ==
    /\ pc = "eval"
    /\ held = {}
    /\ \E i \in DOMAIN profitable_opportunities :
           /\ key(profitable_opportunities[i].path) \in DOMAIN ROUTE_STATS
           /\ ROUTE_STATS[key(profitable_opportunities[i].path)].last_attempt_block
                  = block_number
           /\ block_number > 0

\* C30: the search makes at most 15 passes, none once the bracket is within
\* the tolerance; at every pass a <= x1 <= x2 <= b and the bracket does not
\* widen; the amount returned lies in the initial bracket.
C30_SearchBounded ==
    /\ [](/\ search.rounds <= 15
          /\ search.a <= search.x1
          /\ search.x1 <= search.x2
          /\ search.x2 <= search.b
          /\ SEARCH_LOW <= search.a
          /\ search.b <= SEARCH_HIGH
          /\ pc = "searched" => /\ SEARCH_LOW <= search.optimal_amount
                                /\ search.optimal_amount <= SEARCH_HIGH
                                /\ search.a <= search.optimal_amount
                                /\ search.optimal_amount <= search.b)
    /\ [][/\ search'.a >= search.a
          /\ search'.b <= search.b
          /\ search'.rounds # search.rounds =>
                 /\ search.b - search.a > SEARCH_TOL
                 /\ search'.b - search'.a < search.b - search.a]_vars

\* C30 witness: the search has made its 15 passes, some to each side, and
\* returned an amount strictly inside the initial bracket.
C30_Witness ==
    /\ pc = "searched"
    /\ search.rounds = 15
    /\ SEARCH_LOW < search.a
    /\ search.b < SEARCH_HIGH
    /\ search.a < search.x1
    /\ search.x1 < search.x2
    /\ search.x2 < search.b
    /\ search.optimal_amount = (search.a + search.b) \div 2

\* C31: at each trial amount the net profit is the dollar value of
\* (output - input) less the gas cost (base fee plus priority fee, times the
\* gas limit) less the bribe; a failed or gainless simulation is a loss.
C31_NetOfGasAndBribe ==
    search.trial # None =>
        LET t == search.trial[1]
        IN IF t.answer = None \/ t.answer[1] <= t.amount_in
           THEN t.f < 0
           ELSE LET gross_profit_usd ==
                        GrossProfitUsd(t.amount_in, t.answer[1], OptimizeOraclePrice)
                IN t.f = gross_profit_usd
                         - GasCostUsd(base_gas_price, BribeUsd(gross_profit_usd),
                                      search.gas_limit)
                         - BribeUsd(gross_profit_usd)

\* the slippage tolerance takes one of its six values
SlippageValues == {8, 12, 15, 18, 25, 40}

\* C32: every member of a bundle handed to execution carries a slippage
\* tolerance out of 8, 12, 15, 18, 25, 40 bps; between two members of equal
\* profit the one of higher TVL has no higher tolerance, and between two of
\* equal TVL the one of higher profit has no lower tolerance.
C32_SlippageStep ==
    /\ \A i \in DOMAIN bundle_to_execute :
          bundle_to_execute[i].slippage_bps \in SlippageValues
    /\ \A i \in DOMAIN members :
          /\ members[i].opp = bundle_to_execute[i]
          /\ members[i].opp.slippage_bps \in SlippageValues
    /\ \A i, j \in DOMAIN bundle_to_execute :
          LET m == bundle_to_execute[i]
              n == bundle_to_execute[j]
          IN /\ (m.net_profit_usd = n.net_profit_usd /\ m.tvl <= n.tvl)
                    => m.slippage_bps >= n.slippage_bps
             /\ (m.tvl = n.tvl /\ m.net_profit_usd <= n.net_profit_usd)
                    => m.slippage_bps <= n.slippage_bps

\* C32 witness: a bundle of two members is handed to execution, of equal
\* TVL in the middle tier and profits on both sides of its step, with the
\* tolerances 18 and 25.
C32_Witness ==
    /\ pc = "exec"
    /\ Len(members) = 2
    /\ members[1].opp.tvl = members[2].opp.tvl
    /\ members[1].opp.net_profit_usd < members[2].opp.net_profit_usd
    /\ members[1].opp.slippage_bps = 18
    /\ members[2].opp.slippage_bps = 25

\* the j-th call of lock_opportunity returned true for a pair for which an
\* earlier call had returned true
LockedAgain(j) ==
    /\ lock_log[j].ret
    /\ \E i \in 1..(j - 1) :
          /\ lock_log[i].ret
          /\ lock_log[i].block = lock_log[j].block
          /\ lock_log[i].path = lock_log[j].path

\* C33 as stated: whatever the calls of lock_opportunity and
\* clear_old_locks, no pair is locked a second time.
C33_NeverLockedAgain == \A j \in DOMAIN lock_log : ~LockedAgain(j)

\* the block numbers handed to lock_opportunity and clear_old_locks never
\* decrease from one call to the next
CallsInBlockOrder ==
    /\ \A i, j \in DOMAIN lock_log : i < j => lock_log[i].block <= lock_log[j].block
    /\ \A i, j \in DOMAIN eval : i < j => eval[i].current_block <= eval[j].current_block
    /\ \A k \in DOMAIN eval, j \in DOMAIN lock_log :
          IF eval[k].locks_before < j
          THEN eval[k].current_block <= lock_log[j].block
          ELSE lock_log[j].block <= eval[k].current_block

\* C33, amended: while the block numbers of the calls never decrease, no
\* pair is locked a second time, pruned or not.
C33_NeverLockedAgainInOrder ==
    CallsInBlockOrder => \A j \in DOMAIN lock_log : ~LockedAgain(j)

\* C33 witness: with block numbers that never decrease, a pair is locked,
\* its lock is pruned by a later clear_old_locks, and the route is locked
\* again after that, at the block of the pruning.
C33_Witness ==
    /\ CallsInBlockOrder
    /\ \E i, j \in DOMAIN lock_log, k \in DOMAIN eval :
          /\ i <= eval[k].locks_before
          /\ eval[k].locks_before < j
          /\ lock_log[i].ret
          /\ lock_log[j].ret
          /\ lock_log[i].path = lock_log[j].path
          /\ ~RetainLock(LockKey(lock_log[i].block, lock_log[i].path),
                         eval[k].current_block)
          /\ lock_log[j].block = eval[k].current_block

\* C34: when the evaluations of a block are spawned, every route without a
\* failed execution in its history gets a task, whether it has no history
\* entry or one made by an accepted evaluation or a success.
C34_NeverFailedNeverSkipped ==
    [][(pc = "recv" /\ pc' = "eval") =>
          \A i \in DOMAIN paths' :
              (\/ key(paths'[i]) \notin DOMAIN ROUTE_STATS
               \/ ROUTE_STATS[key(paths'[i])].failures = 0)
                  => \E t \in tasks' : t.idx = i /\ t.block = block_number']_vars

\* C35: an opportunity returned by find_best_trade_golden_section has a
\* positive optimal_amount_in and an expected_output above it, so that the
\* validation of execute_single_transaction lets it through.
C35_ReturnedIsValid ==
    (pc = "optimized" /\ eval.opp # None) =>
        /\ eval.opp[1].optimal_amount_in > 0
        /\ eval.opp[1].expected_output > eval.opp[1].optimal_amount_in
        /\ ~InvalidAmounts(eval.opp[1])

\* C36: the net_profit_usd of a returned opportunity is the profit of its
\* optimal_amount_in (with the output simulated for that amount), and the
\* amount returned is one of the trial amounts the best profit came from.
C36_ProfitOfReturnedAmount ==
    (pc = "optimized" /\ eval.opp # None) =>
        LET opp == eval.opp[1]
        IN /\ opp.net_profit_usd =
                  get_profit_for_amount(opp.optimal_amount_in, eval.answer,
                                        base_gas_price, OptimizeOraclePrice,
                                        OptimizeEthPrice, search.gas_limit)
           /\ opp.optimal_amount_in \in {search.s.x1, search.s.x2}

\* C37: every retry of a submission offers a higher priority fee, and a
\* higher max_fee_per_gas, than the attempt before it.
C37_RetryRaisesFee ==
    \A i \in DOMAIN members :
        \A k \in DOMAIN members[i].sent :
            k > 1 => /\ members[i].sent[k].priority_fee
                            > members[i].sent[k - 1].priority_fee
                     /\ members[i].sent[k].max_fee_per_gas
                            > members[i].sent[k - 1].max_fee_per_gas

\* C38: the processing of a block always finishes: whenever the event loop
\* is not waiting for a block event it comes back to waiting for one.
C38_BlockProcessingEnds == (pc # "recv") ~> (pc = "recv")

\* C39: estimate_gas asks the node at most 3 times and never returns an
\* error: after a successful estimate, which is the last answer it asked
\* for, it returns 125% of it (rounded down); after three failed estimates
\* it returns the configured gas limit.
C39_EstimateNeverFails ==
    /\ Len(sim.answers) <= 3
    /\ \A k \in DOMAIN sim.answers : k < Len(sim.answers) => sim.answers[k] = EstimateErr
    /\ pc = "estimate" => sim.ret = None
    /\ pc = "estimated" =>
          /\ sim.ret # None
          /\ sim.ret[1].ok
          /\ LET last == sim.answers[Len(sim.answers)]
                 gas == sim.ret[1].gas
             IN IF last # EstimateErr
                THEN 100 * gas <= 125 * last /\ 125 * last < 100 * (gas + 1)
                ELSE Len(sim.answers) = 3 /\ gas = sim.gas_limit

\* C39 witness: two estimates fail and the third gives 21, of which
\* estimate_gas returns 125%, 26.
C39_Witness ==
    /\ pc = "estimated"
    /\ sim.answers = <<EstimateErr, EstimateErr, 21>>
    /\ sim.ret = Some([ok |-> TRUE, gas |-> 26])

\* the fallback of estimate_gas: three estimates fail and the configured
\* gas limit is returned
C39_FallbackReached ==
    /\ pc = "estimated"
    /\ sim.answers = <<EstimateErr, EstimateErr, EstimateErr>>
    /\ sim.ret = Some([ok |-> TRUE, gas |-> DEFAULT_GAS_LIMIT])

\* C40: for every gas_used, gas_limit and base_fee the call returns, without
\* a panic: base_fee when gas_used is the target gas_limit / 2, no less than
\* base_fee when gas_used is above the target, no more when it is below.
C40_Eip1559Rule ==
    pc = "base-fee-done" =>
        LET ret == sim.ret[1]
            gas_target == sim.gas_limit \div 2
        IN /\ ~ret.panic
           /\ sim.gas_used = gas_target => ret.value = sim.base_fee
           /\ sim.gas_used > gas_target => ret.value >= sim.base_fee
           /\ sim.gas_used < gas_target => ret.value <= sim.base_fee

====
